---- MODULE Spec2Model ----
(***************************************************************************)
(* Eucalang: a line-oriented interpreter (src/interpreter.py) and its HTTP *)
(* boundary (src/app.py).                                                  *)
(*                                                                         *)
(* Text is modelled at character level: a Python str is a sequence of      *)
(* one-character strings, so that startswith/endswith/split/strip/replace  *)
(* and the regular expressions of the source act as they do in the code.   *)
(***************************************************************************)
EXTENDS Integers, Sequences, FiniteSets, TLC

\* ------------------------------------------------------------------------
\* Python str primitives
\* ------------------------------------------------------------------------

Whitespace == {" ", "\t"}

DigitChars == {"0", "1", "2", "3", "4", "5", "6", "7", "8", "9"}

\* \w of the re module, restricted to the characters the programs use
WordChars == DigitChars \cup
    {"a", "b", "c", "d", "e", "f", "g", "h", "i", "j", "k", "l", "m", "n", "o",
     "p", "q", "r", "s", "t", "u", "v", "w", "x", "y", "z", "L", "W", "E", "_"}

SetMin(S) == CHOOSE x \in S : \A y \in S : x <= y

SetMax(S) == CHOOSE x \in S : \A y \in S : x >= y

\* the least member of I, or 0 for the empty set
FirstOf(I) == IF I = {} THEN 0 ELSE SetMin(I)

\* the greatest member of I, or 0 for the empty set
LastOf(I) == IF I = {} THEN 0 ELSE SetMax(I)

StartsWith(s, p) == Len(p) <= Len(s) /\ SubSeq(s, 1, Len(p)) = p

EndsWith(s, p) == Len(p) <= Len(s) /\ SubSeq(s, Len(s) - Len(p) + 1, Len(s)) = p

\* s[a:] for a >= 0
From(s, a) == IF a >= Len(s) THEN <<>> ELSE SubSeq(s, a + 1, Len(s))

\* s[a:-1] for a >= 0
Slice(s, a) == IF a + 1 > Len(s) - 1 THEN <<>> ELSE SubSeq(s, a + 1, Len(s) - 1)

RECURSIVE LStrip(_)
LStrip(s) == IF s /= <<>> /\ Head(s) \in Whitespace THEN LStrip(Tail(s)) ELSE s

RECURSIVE RStrip(_)
RStrip(s) ==
    IF s /= <<>> /\ s[Len(s)] \in Whitespace THEN RStrip(SubSeq(s, 1, Len(s) - 1)) ELSE s

\* str.strip()
Strip(s) == RStrip(LStrip(s))

\* the 1-based places where p occurs in s
Occurrences(s, p) == {i \in 1..(Len(s) - Len(p) + 1) : SubSeq(s, i, i + Len(p) - 1) = p}

\* str.find(p) + 1: the place of the first occurrence of p in s, 0 if none
Find(s, p) == FirstOf(Occurrences(s, p))

\* str.rfind(p) + 1
RFind(s, p) == LastOf(Occurrences(s, p))

\* p in s
Contains(s, p) == Occurrences(s, p) /= {}

\* s cut at an occurrence of p at place i
SplitAt(s, i, p) == <<SubSeq(s, 1, i - 1), From(s, i + Len(p) - 1)>>

\* str.split(p): every part, left to right
RECURSIVE Split(_, _)
RECURSIVE SplitFrom(_, _, _)
Split(s, p) == SplitFrom(s, p, Find(s, p))

SplitFrom(s, p, i) ==
    IF i = 0 THEN <<s>> ELSE <<SubSeq(s, 1, i - 1)>> \o Split(From(s, i + Len(p) - 1), p)

\* str.split(p, 1): cut at the first occurrence only
Split1From(s, p, i) == IF i = 0 THEN <<s>> ELSE SplitAt(s, i, p)

Split1(s, p) == Split1From(s, p, Find(s, p))

RECURSIVE Join(_, _)
Join(parts, sep) ==
    IF parts = <<>> THEN <<>>
    ELSE IF Len(parts) = 1 THEN parts[1]
    ELSE parts[1] \o sep \o Join(Tail(parts), sep)

\* str.replace(p, r)
Replace(s, p, r) == Join(Split(s, p), r)

\* str.replace(p, r, 1)
Replace1(s, p, r) == Join(Split1(s, p), r)

\* the length of the first whitespace-free word of t, t not starting with whitespace
WordLen(t) == FirstOf({i \in 1..(Len(t) + 1) : i = Len(t) + 1 \/ t[i] \in Whitespace}) - 1

\* str.split(): the whitespace-separated words
RECURSIVE Words(_)
RECURSIVE WordsOf(_, _)
Words(s) == WordsOf(LStrip(s), WordLen(LStrip(s)))

WordsOf(t, n) == IF t = <<>> THEN <<>> ELSE <<SubSeq(t, 1, n)>> \o Words(From(t, n))

\* str.isdigit()
IsDigit(s) == s /= <<>> /\ \A i \in 1..Len(s) : s[i] \in DigitChars

DigitVal(c) ==
    CASE c = "0" -> 0 [] c = "1" -> 1 [] c = "2" -> 2 [] c = "3" -> 3 [] c = "4" -> 4
      [] c = "5" -> 5 [] c = "6" -> 6 [] c = "7" -> 7 [] c = "8" -> 8 [] c = "9" -> 9

DigitChar(n) == <<"0", "1", "2", "3", "4", "5", "6", "7", "8", "9">>[n + 1]

\* int(s) of a digit string
RECURSIVE ParseInt(_)
ParseInt(s) ==
    IF s = <<>> THEN 0 ELSE 10 * ParseInt(SubSeq(s, 1, Len(s) - 1)) + DigitVal(s[Len(s)])

\* the code points that order the characters of str comparisons
CharOrder ==
    <<"\t", " ", "\"", "#", "$", "(", ")", "*", "+", ",", "-", ".", "/",
      "0", "1", "2", "3", "4", "5", "6", "7", "8", "9", ":", ";", "<", "=", ">",
      "E", "L", "W", "\\", "_",
      "a", "b", "c", "d", "e", "f", "g", "h", "i", "j", "k", "l", "m", "n", "o",
      "p", "q", "r", "s", "t", "u", "v", "w", "x", "y", "z">>

Ord(c) == CHOOSE i \in 1..Len(CharOrder) : CharOrder[i] = c

\* a < b on str
RECURSIVE StrLess(_, _)
StrLess(a, b) ==
    IF b = <<>> THEN FALSE
    ELSE IF a = <<>> THEN TRUE
    ELSE IF Head(a) = Head(b) THEN StrLess(Tail(a), Tail(b))
    ELSE Ord(Head(a)) < Ord(Head(b))

\* ------------------------------------------------------------------------
\* Python values: int, float (an exact rational n/d, d > 0, in lowest terms)
\* and str.  "irr" stands for a float (or complex) result that is no
\* rational number (sqrt(2), 2 ** 0.5): it is kept opaque.
\* ------------------------------------------------------------------------

Abs(n) == IF n < 0 THEN -n ELSE n

RECURSIVE Gcd(_, _)
Gcd(a, b) == IF b = 0 THEN a ELSE Gcd(b, a % b)

IntV(n) == [t |-> "int", n |-> n, d |-> 1, s |-> <<>>]

\* n/d with the common factor g taken out and the sign on the numerator
Reduced(n, d, g) ==
    [t |-> "float", n |-> (IF d < 0 THEN -1 ELSE 1) * (n \div g),
     d |-> Abs(d) \div g, s |-> <<>>]

FloatV(n, d) == Reduced(n, d, Gcd(Abs(n), Abs(d)))

StrV(s) == [t |-> "str", n |-> 0, d |-> 1, s |-> s]

IrrV == [t |-> "irr", n |-> 0, d |-> 1, s |-> <<>>]

IsNum(v) == v.t \in {"int", "float"}

\* a == b
ValEq(a, b) ==
    IF IsNum(a) /\ IsNum(b) THEN a.n * b.d = b.n * a.d
    ELSE IF a.t = "str" /\ b.t = "str" THEN a.s = b.s
    ELSE FALSE

\* a < b, where the comparison is defined
ValLess(a, b) ==
    IF IsNum(a) /\ IsNum(b) THEN a.n * b.d < b.n * a.d ELSE StrLess(a.s, b.s)

\* bool(v)
Truthy(v) == IF v.t = "str" THEN v.s /= <<>> ELSE IF v.t = "irr" THEN TRUE ELSE v.n /= 0

RECURSIVE NatStr(_)
NatStr(n) == IF n < 10 THEN <<DigitChar(n)>> ELSE NatStr(n \div 10) \o <<DigitChar(n % 10)>>

\* the digits after the point that repr writes at most
FracDigits == 17

\* the digits of r/d (0 <= r < d) after the point
RECURSIVE FracStr(_, _, _)
FracStr(r, d, k) ==
    IF r = 0 \/ k = 0 THEN <<>>
    ELSE <<DigitChar((r * 10) \div d)>> \o FracStr((r * 10) % d, d, k - 1)

OrZero(f) == IF f = <<>> THEN <<"0">> ELSE f

\* str(v)
Str(v) ==
    CASE v.t = "str" -> v.s
      [] v.t = "int" -> IF v.n < 0 THEN <<"-">> \o NatStr(-v.n) ELSE NatStr(v.n)
      [] v.t = "float" ->
            (IF v.n < 0 THEN <<"-">> ELSE <<>>) \o NatStr(Abs(v.n) \div v.d) \o <<".">>
                 \o OrZero(FracStr(Abs(v.n) % v.d, v.d, FracDigits))
      [] OTHER -> <<"n", "a", "n">>

RECURSIVE IntPow(_, _)
IntPow(a, k) == IF k = 0 THEN 1 ELSE a * IntPow(a, k - 1)

\* ------------------------------------------------------------------------
\* Exceptions.  LangError is the interpreter's own; the others are the
\* built-in exceptions the Python operations of the code raise.
\* ------------------------------------------------------------------------

NoExc == [kind |-> "none", msg |-> "", arg |-> <<>>]

Exc(kind, msg, arg) == [kind |-> kind, msg |-> msg, arg |-> arg]

Ok(v) == [ok |-> TRUE, v |-> v, exc |-> NoExc]

Raise(kind, msg, arg) == [ok |-> FALSE, v |-> IntV(0), exc |-> Exc(kind, msg, arg)]

\* ------------------------------------------------------------------------
\* Expression evaluator (eval_expr).  V is self.vars.
\* ------------------------------------------------------------------------

\* r with r^q = a, or -1 when a is no perfect q-th power (a >= 0, q >= 1)
Root(a, q) == FirstOf({r \in 1..(a + 1) : IntPow(r - 1, q) = a}) - 1

\* (rn/rd) ** b.n, where rn and rd are the b.d-th roots of the base
PowerRoot(rn, rd, b) ==
    IF rn < 0 \/ rd < 0 THEN IrrV
    ELSE IF b.n >= 0 THEN FloatV(IntPow(rn, b.n), IntPow(rd, b.n))
    ELSE FloatV(IntPow(rd, -b.n), IntPow(rn, -b.n))

\* a ** b on numbers, once the errors of the operation are excluded
Power(a, b) ==
    IF b.d = 1 THEN
        IF b.n >= 0 THEN
            IF a.t = "int" /\ b.t = "int" THEN IntV(IntPow(a.n, b.n))
            ELSE FloatV(IntPow(a.n, b.n), IntPow(a.d, b.n))
        ELSE FloatV(IntPow(a.d, -b.n), IntPow(a.n, -b.n))
    ELSE IF a.n < 0 THEN IrrV
    ELSE IF a.n = 0 THEN FloatV(0, 1)
    ELSE PowerRoot(Root(a.n, b.d), Root(a.d, b.d), b)

\* an int from ints, a float otherwise
Num(a, b, n, d) == IF a.t = "int" /\ b.t = "int" THEN IntV(n) ELSE FloatV(n, d)

Apply(op, a, b) ==
    CASE op = <<"-">> -> Num(a, b, a.n * b.d - b.n * a.d, a.d * b.d)
      [] op = <<"*">> -> Num(a, b, a.n * b.n, a.d * b.d)
      [] op = <<"/">> -> FloatV(a.n * b.d, a.d * b.n)
      [] op = <<"*", "*">> -> Power(a, b)

\* lines 164-169: the dict literal computes a - b, a * b, a / b and a ** b, in
\* that order, whatever op is, and only then selects the entry of op; so the
\* first of the four to raise decides the outcome.
BinOp(op, a, b) ==
    IF a.t = "str" \/ b.t = "str" THEN
        Raise("TypeError", "unsupported operand type(s) for -", <<>>)
    ELSE IF a.t = "irr" \/ b.t = "irr" THEN Ok(IrrV)
    ELSE IF b.n = 0 THEN Raise("ZeroDivisionError", "division by zero", <<>>)
    ELSE IF a.n = 0 /\ b.n < 0 THEN
        Raise("ZeroDivisionError", "0.0 cannot be raised to a negative power", <<>>)
    ELSE Ok(Apply(op, a, b))

\* line 160: the operators in the order they are looked for
ArithOps == << <<"*", "*">>, <<"*">>, <<"/">>, <<"-">> >>

\* the place in ops of the first operator that occurs in text, 0 if none does
FirstOp(text, ops) == FirstOf({i \in 1..Len(ops) : Contains(text, ops[i])})

\* line 162: expr.split(op, 1)
SplitOp(expr, op) == SplitAt(expr, Find(expr, op), op)

\* float(expr) for digits with one "."
ParseFloat(expr) ==
    FloatV(ParseInt(Replace1(expr, <<".">>, <<>>)), IntPow(10, Len(expr) - Find(expr, <<".">>)))

\* round(n/d) from its floor fl: half to even
RoundFrom(n, d, fl) ==
    IF 2 * (n - fl * d) < d THEN fl
    ELSE IF 2 * (n - fl * d) > d THEN fl + 1
    ELSE IF fl % 2 = 0 THEN fl ELSE fl + 1

Round(v) == RoundFrom(v.n, v.d, v.n \div v.d)

\* lines 150-159: the unary functions applied to the evaluated argument
Unary(f, v) ==
    IF v.t = "str" THEN Raise("TypeError", "must be real number, not str", <<>>)
    ELSE IF v.t = "irr" THEN Ok(IrrV)
    ELSE CASE f = "sqrt" ->
                IF v.n < 0 THEN Raise("ValueError", "math domain error", <<>>)
                ELSE Ok(Power(v, FloatV(1, 2)))
           [] f = "cbrt" -> Ok(Power(v, FloatV(1, 3)))
           [] f = "round" -> Ok(IntV(IF v.t = "int" THEN v.n ELSE Round(v)))
           [] f = "floor" -> Ok(IntV(v.n \div v.d))
           [] f = "ceiling" -> Ok(IntV(-((-v.n) \div v.d)))

OnValue(f, r) == IF r.ok THEN Unary(f, r.v) ELSE r

\* the place of the first result that is an exception, 0 if none is
FirstBad(rs) == FirstOf({i \in 1..Len(rs) : ~rs[i].ok})

\* line 141: ''.join(str(...) for p in parts); the first exception ends it
Concat(rs) ==
    IF FirstBad(rs) /= 0 THEN rs[FirstBad(rs)]
    ELSE Ok(StrV(Join([i \in 1..Len(rs) |-> Str(rs[i].v)], <<>>)))

\* lines 163-169: the left operand, then the right one, then the operation
BinRes(op, a, b) == IF ~a.ok THEN a ELSE IF ~b.ok THEN b ELSE BinOp(op, a.v, b.v)

RECURSIVE eval_expr(_, _)
RECURSIVE eval_stripped(_, _)
RECURSIVE eval_parts(_, _)
RECURSIVE eval_operands(_, _, _)
RECURSIVE eval_arith(_, _, _)

\* lines 137-138
eval_expr(V, expr) == eval_stripped(V, Strip(expr))

\* lines 140-141
eval_parts(V, parts) == Concat([i \in 1..Len(parts) |-> eval_expr(V, Strip(parts[i]))])

\* lines 162-163
eval_operands(V, op, ab) == BinRes(op, eval_expr(V, Strip(ab[1])), eval_expr(V, Strip(ab[2])))

\* lines 160-170: k is the place of the first operator present
eval_arith(V, expr, k) ==
    IF k = 0 THEN Raise("LangError", "Invalid expression: {expr}", expr)
    ELSE eval_operands(V, ArithOps[k], SplitOp(expr, ArithOps[k]))

\* lines 139-170
eval_stripped(V, expr) ==
    IF Contains(expr, <<"+">>) THEN eval_parts(V, Split(expr, <<"+">>))
    ELSE IF IsDigit(expr) THEN Ok(IntV(ParseInt(expr)))
    ELSE IF IsDigit(Replace1(expr, <<".">>, <<>>)) THEN Ok(ParseFloat(expr))
    ELSE IF expr \in DOMAIN V THEN Ok(V[expr])
    ELSE IF StartsWith(expr, <<"\"">>) /\ EndsWith(expr, <<"\"">>) THEN
        Ok(StrV(Slice(expr, 1)))
    ELSE IF StartsWith(expr, <<"s", "q", "r", "t", "(">>) THEN
        OnValue("sqrt", eval_expr(V, Slice(expr, 5)))
    ELSE IF StartsWith(expr, <<"c", "b", "r", "t", "(">>) THEN
        OnValue("cbrt", eval_expr(V, Slice(expr, 5)))
    ELSE IF StartsWith(expr, <<"r", "o", "u", "n", "d", "(">>) THEN
        OnValue("round", eval_expr(V, Slice(expr, 6)))
    ELSE IF StartsWith(expr, <<"f", "l", "o", "o", "r", "(">>) THEN
        OnValue("floor", eval_expr(V, Slice(expr, 6)))
    ELSE IF StartsWith(expr, <<"c", "e", "i", "l", "i", "n", "g", "(">>) THEN
        OnValue("ceiling", eval_expr(V, Slice(expr, 8)))
    ELSE eval_arith(V, expr, FirstOp(expr, ArithOps))

\* ------------------------------------------------------------------------
\* Condition evaluator (eval_cond)
\* ------------------------------------------------------------------------

OkB(b) == [ok |-> TRUE, b |-> b, exc |-> NoExc]

RaiseB(e) == [ok |-> FALSE, b |-> FALSE, exc |-> e]

\* line 176: the comparison operators in the order they are looked for
CmpOps == << <<"=", "=">>, <<"!", "=">>, <<">", "=">>, <<"<", "=">>, <<">">>, <<"<">> >>

\* lines 180-187: the dict literal computes all six comparisons before it
\* selects one; an ordering comparison of a str with a number raises.
Compare(op, a, b) ==
    IF (a.t = "str") /= (b.t = "str") THEN
        RaiseB(Exc("TypeError", "'>' not supported between instances", <<>>))
    ELSE IF a.t = "irr" \/ b.t = "irr" THEN OkB(a = b)
    ELSE OkB(CASE op = <<"=", "=">> -> ValEq(a, b)
               [] op = <<"!", "=">> -> ~ValEq(a, b)
               [] op = <<">">> -> ValLess(b, a)
               [] op = <<"<">> -> ValLess(a, b)
               [] op = <<">", "=">> -> ~ValLess(a, b)
               [] op = <<"<", "=">> -> ~ValLess(b, a))

kw_not == <<"n","o","t"," ">>

Placeholder == <<"$", "$">>

\* line 175: cond.replace("$$", str(element))
Substitute(cond, element) == Replace(cond, Placeholder, Str(element))

\* line 179, then the comparison
CmpRes(op, a, b) ==
    IF ~a.ok THEN RaiseB(a.exc) ELSE IF ~b.ok THEN RaiseB(b.exc) ELSE Compare(op, a.v, b.v)

\* line 178: a, b = map(str.strip, cond.split(op))
eval_sides(V, op, parts) ==
    IF Len(parts) /= 2 THEN RaiseB(Exc("ValueError", "too many values to unpack", <<>>))
    ELSE CmpRes(op, eval_expr(V, Strip(parts[1])), eval_expr(V, Strip(parts[2])))

NotB(r) == IF r.ok THEN OkB(~r.b) ELSE r

BoolOf(r) == IF r.ok THEN OkB(Truthy(r.v)) ELSE RaiseB(r.exc)

RECURSIVE eval_cond(_, _, _, _)
RECURSIVE eval_cond_text(_, _, _, _, _)

\* lines 176-190: k is the place of the first comparison operator present
eval_cond_text(V, cond, k, hasElement, element) ==
    IF k /= 0 THEN eval_sides(V, CmpOps[k], Split(cond, CmpOps[k]))
    ELSE IF StartsWith(cond, kw_not) THEN NotB(eval_cond(V, From(cond, 4), hasElement, element))
    ELSE BoolOf(eval_expr(V, cond))

\* the text the operators are looked for in (lines 174-175)
CondText(cond, hasElement, element) ==
    IF hasElement THEN Substitute(cond, element) ELSE cond

\* lines 173-190; hasElement is "element is not None"
eval_cond(V, cond, hasElement, element) ==
    eval_cond_text(V, CondText(cond, hasElement, element),
                   FirstOp(CondText(cond, hasElement, element), CmpOps), hasElement, element)

\* ------------------------------------------------------------------------
\* The literal texts the interpreter tests lines against
\* ------------------------------------------------------------------------

kw_entry == <<"W","h","e","n"," ","c","o","n","t","a","i","n","e","r"," ","m","a","i","n">>

kw_end == <<"E","n","d",";">>

kw_def_procedure == <<"d","e","f"," ","p","r","o","c","e","d","u","r","e">>

kw_call == <<"c","a","l","l"," ">>

kw_def == <<"d","e","f"," ">>

kw_var == <<"v","a","r">>

kw_const == <<"c","o","n","s","t">>

kw_input_from == <<"i","n","p","u","t"," ","f","r","o","m">>

kw_console_type == <<"c","o","n","s","o","l","e",".","t","y","p","e">>

kw_if == <<"i","f"," ">>

kw_else == <<"e","l","s","e",":">>

kw_while == <<"w","h","i","l","e"," ">>

kw_create_list == <<"c","r","e","a","t","e"," ","l","i","s","t">>

kw_append == <<"a","p","p","e","n","d">>

kw_remove == <<"r","e","m","o","v","e">>

kw_List == <<"L","i","s","t"," ">>

kw_length == <<" ","l","e","n","g","t","h","(",")">>

kw_filter == <<"f","i","l","t","e","r">>

kw_break == <<"b","r","e","a","k",";">>

kw_skip == <<"s","k","i","p",";">>

kw_return == <<"r","e","t","u","r","n">>

kw_comment_open == <<"/","/">>

kw_comment_close == <<"\\","\\">>

kw_hash == <<"#">>

\* ------------------------------------------------------------------------
\* Preprocessing (_preprocess): blank lines, comment blocks and # lines go
\* ------------------------------------------------------------------------

\* a loop body that leaves the comment mode on at a close marker
ClassifyNoClose(line, in_comment) ==
    [keep |-> ~(line = <<>> \/ in_comment \/ StartsWith(line, kw_comment_open)
                    \/ StartsWith(line, kw_comment_close) \/ StartsWith(line, kw_hash)),
     in_comment |-> in_comment \/ (line /= <<>> /\ StartsWith(line, kw_comment_open)),
     line |-> line]

\* lines 31-41 for one stripped line: whether it is kept, and the comment
\* mode after it
Classify(line, in_comment) ==
    IF line = <<>> THEN [keep |-> FALSE, in_comment |-> in_comment, line |-> line]
    ELSE IF StartsWith(line, kw_comment_open) THEN
        [keep |-> FALSE, in_comment |-> TRUE, line |-> line]
    ELSE IF StartsWith(line, kw_comment_close) THEN
        [keep |-> FALSE, in_comment |-> FALSE, line |-> line]
    ELSE IF in_comment \/ StartsWith(line, kw_hash) THEN
        [keep |-> FALSE, in_comment |-> in_comment, line |-> line]
    ELSE [keep |-> TRUE, in_comment |-> in_comment, line |-> line]

\* lines 30-41: the body of the loop for one raw line
PreLine(raw_line, in_comment) == Classify(Strip(raw_line), in_comment)

RECURSIVE PreLoop(_, _, _, _)
RECURSIVE PreNext(_, _, _, _)

PreNext(lines, i, r, out) ==
    PreLoop(lines, i + 1, r.in_comment, IF r.keep THEN Append(out, r.line) ELSE out)

PreLoop(lines, i, in_comment, out) ==
    IF i > Len(lines) THEN out
    ELSE PreNext(lines, i, PreLine(lines[i], in_comment), out)

\* lines 26-42, on the lines of the code (code.split("\n"))
preprocess(lines) == PreLoop(lines, 1, FALSE, <<>>)

\* ------------------------------------------------------------------------
\* The regular expressions of the statement handlers.  re.match anchors the
\* pattern at the start of the text only; (.*) and (.+) are greedy.  A match
\* in progress is the text still to be matched and the groups captured.
\* ------------------------------------------------------------------------

NoMatch == [ok |-> FALSE, rest |-> <<>>, groups |-> <<>>]

Anchor(text) == [ok |-> TRUE, rest |-> text, groups |-> <<>>]

\* a literal
Lit(m, lit) ==
    IF m.ok /\ StartsWith(m.rest, lit) THEN [m EXCEPT !.rest = From(m.rest, Len(lit))]
    ELSE NoMatch

\* (a|b)
Alt(m, a, b) ==
    IF m.ok /\ StartsWith(m.rest, a) THEN
        [ok |-> TRUE, rest |-> From(m.rest, Len(a)), groups |-> Append(m.groups, a)]
    ELSE IF m.ok /\ StartsWith(m.rest, b) THEN
        [ok |-> TRUE, rest |-> From(m.rest, Len(b)), groups |-> Append(m.groups, b)]
    ELSE NoMatch

\* a group of the next n characters, which must be min or more
Take(m, n, min, skip) ==
    IF m.ok /\ n >= min THEN
        [ok |-> TRUE, rest |-> From(m.rest, n + skip),
         groups |-> Append(m.groups, SubSeq(m.rest, 1, n))]
    ELSE NoMatch

\* the length of the longest prefix of s made of \w characters
WordRun(s) == SetMax({k \in 0..Len(s) : \A i \in 1..k : s[i] \in WordChars})

\* (\w+)
Word(m) == Take(m, WordRun(m.rest), 1, 0)

\* (.*)close or (.+)close: the group runs to the last close in the text
Until(m, close, min) == Take(m, RFind(m.rest, close) - 1, min, Len(close))

\* (.*)sep, with a close still to come after sep: the group runs to the last
\* sep that has a close after it
UntilBefore(m, sep, close) ==
    Take(m, RFind(SubSeq(m.rest, 1, RFind(m.rest, close) - 1), sep) - 1, 0, Len(sep))

\* r"def (var|const) (\w+) = (.+);"
match_def_var(line) ==
    Until(Lit(Word(Lit(Alt(Lit(Anchor(line), kw_def), kw_var, kw_const), <<" ">>)),
              <<" ", "=", " ">>), <<";">>, 1)

\* r'input from "(.*)"'
match_input(expr) == Until(Lit(Lit(Anchor(expr), kw_input_from), <<" ", "\"">>), <<"\"">>, 0)

\* r'console\.type\((.*)\);'
match_console(line) == Until(Lit(Lit(Anchor(line), kw_console_type), <<"(">>), <<")", ";">>, 0)

\* r'create list\("(.*)"\);'
match_create(line) ==
    Until(Lit(Lit(Anchor(line), kw_create_list), <<"(", "\"">>), <<"\"", ")", ";">>, 0)

\* r'word\("(.*)", (.*)\);' for word in append, remove, filter
match_name_arg(line, word) ==
    Until(UntilBefore(Lit(Lit(Anchor(line), word), <<"(", "\"">>), <<"\"", ",", " ">>,
                      <<")", ";">>),
          <<")", ";">>, 0)

\* r'List (\w+) length\(\);'
match_length(line) == Lit(Lit(Word(Lit(Anchor(line), kw_List)), kw_length), <<";">>)

\* ------------------------------------------------------------------------
\* Interpreter state.  An interpreter is a record of the fields of the
\* Interpreter object, the output it has printed, the exception that ended
\* its run, and the control stack of the Python calls in progress: one
\* frame for run(), and one for each if_block, while_block or procedure
\* call loop that has a line of its own in execution.
\* ------------------------------------------------------------------------


None == <<"None">>

\* dict[k] = v
Put(f, k, v) == [n \in (DOMAIN f) \cup {k} |-> IF n = k THEN v ELSE f[n]]

NoFrame ==
    [k |-> "none", pend |-> FALSE, phase |-> "", cond |-> <<>>, start |-> 0,
     iters |-> 0, name |-> <<>>, body |-> <<>>, i |-> 0, cid |-> 0]

\* run(): the loop of lines 49-54; pend says that an exec_line has been
\* dispatched whose "self.pc += 1" is still to come
RunFrame == [NoFrame EXCEPT !.k = "run"]

\* if_block: the loop of lines 198-200; start is the counter the block was
\* entered at
IfFrame == [NoFrame EXCEPT !.k = "if"]

\* while_block: the loops of lines 209-213
WhileFrame(cond, start) ==
    [NoFrame EXCEPT !.k = "while", !.phase = "cond", !.cond = cond, !.start = start]

\* exec_line: the loop of lines 81-82 over the stored lines; start is the
\* counter the call was made at
CallFrame(name, body, cid) ==
    [NoFrame EXCEPT !.k = "call", !.name = name, !.body = body, !.i = 1, !.cid = cid]

NoEv == [op |-> "new", line |-> <<>>, start |-> 0, iters |-> 0]

Ev(op, line, start, iters) == [op |-> op, line |-> line, start |-> start, iters |-> iters]

\* what a step keeps of the state it started from
Snapshot(s) ==
    [vars |-> s.vars, consts |-> s.consts, lists |-> s.lists,
     procedures |-> s.procedures, out |-> s.out, pc |-> s.pc,
     defining_proc |-> s.defining_proc, proc_buffer |-> s.proc_buffer,
     depth |-> Len(s.stack)]

WithPre(s) == [x \in (DOMAIN s) \cup {"pre"} |-> IF x = "pre" THEN Snapshot(s) ELSE s[x]]

\* __init__ (lines 8-23); source is the text split into its physical lines
Interpreter(source) ==
    WithPre([raw |-> source,
             lines |-> preprocess(source),
             vars |-> <<>>,
             consts |-> {},
             lists |-> <<>>,
             procedures |-> <<>>,
             defining_proc |-> FALSE,
             current_proc |-> None,
             proc_buffer |-> <<>>,
             pc |-> 0,
             loop_stack |-> <<>>,
             inputs |-> <<>>,
             stack |-> <<>>,
             status |-> "new",
             exc |-> NoExc,
             out |-> <<>>,
             log |-> <<>>,
             ev |-> NoEv,
             ncalls |-> 0,
             steps |-> 0])

Top(s) == s.stack[Len(s.stack)]

SetTop(s, f) == [s EXCEPT !.stack[Len(s.stack)] = f]

Pop(s) == [s EXCEPT !.stack = SubSeq(@, 1, Len(@) - 1)]

Push(s, f) == [s EXCEPT !.stack = Append(@, f)]

\* an exception leaves every call in progress: nothing in the interpreter
\* catches it
Fail(s, e) == [s EXCEPT !.exc = e, !.status = "error", !.stack = <<>>]

\* ------------------------------------------------------------------------
\* Control flow
\* ------------------------------------------------------------------------

\* lines 221-224: the depth after the line l
Depth(l, depth) ==
    (IF EndsWith(l, <<":">>) THEN depth + 1 ELSE depth) - (IF l = kw_end THEN 1 ELSE 0)

\* lines 218-224: the counter where the loop stops, or where self.lines[pc]
\* is out of range
RECURSIVE SkipLoop(_, _, _)
SkipLoop(lines, pc, depth) ==
    IF depth = 0 THEN [ok |-> TRUE, pc |-> pc]
    ELSE IF pc + 1 >= Len(lines) THEN [ok |-> FALSE, pc |-> pc + 1]
    ELSE SkipLoop(lines, pc + 1, Depth(lines[pc + 2], depth))

IndexError == Exc("IndexError", "list index out of range", <<>>)

SkipTo(s, r) == IF r.ok THEN [s EXCEPT !.pc = r.pc] ELSE Fail([s EXCEPT !.pc = r.pc], IndexError)

\* a skip that leaves out the line after the one the counter is on
skip_block_past_first(s) == SkipTo(s, SkipLoop(s.lines, s.pc + 1, 1))

\* lines 217-224
skip_block(s) == SkipTo(s, SkipLoop(s.lines, s.pc, 1))

\* lines 226-227
break_loop(s) == skip_block(s)

\* lines 229-230
skip_loop(s) == skip_block(s)

\* lines 196-202, once the condition is evaluated
IfBranch(s, result) ==
    IF ~result.ok THEN Fail(s, result.exc)
    ELSE IF result.b THEN Push([s EXCEPT !.pc = @ + 1], [IfFrame EXCEPT !.start = s.pc])
    ELSE skip_block([s EXCEPT !.pc = @ + 1])

\* lines 193-202, up to the entry of the loop of line 198
if_block(s, line) == IfBranch(s, eval_cond(s.vars, Strip(Slice(line, 3)), FALSE, IntV(0)))

\* lines 204-208, up to the first evaluation of the condition
while_block(s, line) ==
    Push([s EXCEPT !.loop_stack = Append(@, s.pc), !.pc = @ + 1],
         WhileFrame(Strip(Slice(line, 6)), s.pc))

\* ------------------------------------------------------------------------
\* Variables, output, lists
\* ------------------------------------------------------------------------

\* lines 132-134
def_var_set(s, m, val) ==
    IF ~val.ok THEN Fail(s, val.exc)
    ELSE [s EXCEPT !.vars = Put(@, m.groups[2], val.v),
                   !.consts = IF m.groups[1] = kw_const THEN @ \cup {m.groups[2]} ELSE @]

\* self.inputs.get(prompt, "")
InputFor(s, prompt) == IF prompt \in DOMAIN s.inputs THEN s.inputs[prompt] ELSE StrV(<<>>)

\* lines 124-128
def_var_input(s, m, m_input) ==
    IF ~m_input.ok THEN Fail(s, Exc("LangError", "Invalid input syntax", <<>>))
    ELSE def_var_set(s, m, Ok(InputFor(s, m_input.groups[1])))

\* lines 123-130
def_var_expr(s, m, expr) ==
    IF StartsWith(expr, kw_input_from) THEN def_var_input(s, m, match_input(expr))
    ELSE def_var_set(s, m, eval_expr(s.vars, expr))

\* lines 117-120
def_var_match(s, m) ==
    IF ~m.ok THEN Fail(s, Exc("LangError", "Invalid variable definition", <<>>))
    ELSE def_var_expr(s, m, Strip(m.groups[3]))

\* lines 115-134
def_var(s, line) == def_var_match(s, match_def_var(line))

\* print(x): one line on the current standard output
Emit(s, text) == [s EXCEPT !.out = Append(@, text)]

\* line 237
console_print(s, val) == IF ~val.ok THEN Fail(s, val.exc) ELSE Emit(s, Str(val.v))

console_match(s, m) ==
    IF ~m.ok THEN Fail(s, Exc("LangError", "Invalid console.type", <<>>))
    ELSE console_print(s, eval_expr(s.vars, m.groups[1]))

\* lines 233-237
console(s, line) == console_match(s, match_console(line))

\* re.match(...) is None
AttributeError == Exc("AttributeError", "'NoneType' object has no attribute", <<>>)

\* self.lists[name] for a name that is no key
KeyError(name) == Exc("KeyError", "{name}", name)

\* a create list that takes the name from the variables
create_list_one_store(s, m) ==
    IF ~m.ok THEN Fail(s, AttributeError)
    ELSE [s EXCEPT !.lists = Put(@, m.groups[1], <<>>),
                   !.vars = [n \in (DOMAIN @) \ {m.groups[1]} |-> @[n]]]

create_list_match(s, m) ==
    IF ~m.ok THEN Fail(s, AttributeError) ELSE [s EXCEPT !.lists = Put(@, m.groups[1], <<>>)]

\* lines 240-242
create_list(s, line) == create_list_match(s, match_create(line))

append_list_value(s, name, val) ==
    IF ~val.ok THEN Fail(s, val.exc) ELSE [s EXCEPT !.lists[name] = Append(@, val.v)]

\* line 246: self.lists[name] is looked up before the value is evaluated
append_list_match(s, m) ==
    IF ~m.ok THEN Fail(s, AttributeError)
    ELSE IF m.groups[1] \notin DOMAIN s.lists THEN Fail(s, KeyError(m.groups[1]))
    ELSE append_list_value(s, m.groups[1], eval_expr(s.vars, m.groups[2]))

\* lines 244-246
append_list(s, line) == append_list_match(s, match_name_arg(line, kw_append))

\* val in xs
ListHas(xs, val) == \E i \in 1..Len(xs) : ValEq(xs[i], val)

\* xs without its element at i
Without(xs, i) == SubSeq(xs, 1, i - 1) \o SubSeq(xs, i + 1, Len(xs))

\* a remove that takes the last element equal to val
ListRemoveLast(xs, val) == Without(xs, SetMax({k \in 1..Len(xs) : ValEq(xs[k], val)}))

\* xs.remove(val), for val in xs: the first element equal to val goes
ListRemove(xs, val) == Without(xs, SetMin({k \in 1..Len(xs) : ValEq(xs[k], val)}))

\* lines 250-252: the value is evaluated before self.lists[name] is looked up
remove_list_value(s, name, val) ==
    IF ~val.ok THEN Fail(s, val.exc)
    ELSE IF name \notin DOMAIN s.lists THEN Fail(s, KeyError(name))
    ELSE IF ListHas(s.lists[name], val.v) THEN [s EXCEPT !.lists[name] = ListRemove(@, val.v)]
    ELSE s

remove_list_match(s, m) ==
    IF ~m.ok THEN Fail(s, AttributeError)
    ELSE remove_list_value(s, m.groups[1], eval_expr(s.vars, m.groups[2]))

\* lines 248-252
remove_list(s, line) == remove_list_match(s, match_name_arg(line, kw_remove))

list_length_match(s, m) ==
    IF ~m.ok THEN Fail(s, AttributeError)
    ELSE IF m.groups[1] \notin DOMAIN s.lists THEN Fail(s, KeyError(m.groups[1]))
    ELSE Emit(s, NatStr(Len(s.lists[m.groups[1]])))

\* lines 254-256
list_length(s, line) == list_length_match(s, match_length(line))

\* [x for x in xs if keep(x)], keep given by position
RECURSIVE Comprehend(_, _)
Comprehend(xs, keep) ==
    IF xs = <<>> THEN <<>>
    ELSE (IF Head(keep) THEN <<Head(xs)>> ELSE <<>>) \o Comprehend(Tail(xs), Tail(keep))

\* line 260, from the outcomes rs of the condition on the elements xs in
\* order: the first exception ends the comprehension
filter_list_keep(s, name, xs, rs) ==
    IF FirstBad(rs) /= 0 THEN Fail(s, rs[FirstBad(rs)].exc)
    ELSE [s EXCEPT !.lists[name] = Comprehend(xs, [i \in 1..Len(xs) |-> rs[i].b])]

filter_list_each(s, name, cond, xs) ==
    filter_list_keep(s, name, xs, [i \in 1..Len(xs) |-> eval_cond(s.vars, cond, TRUE, xs[i])])

filter_list_match(s, m) ==
    IF ~m.ok THEN Fail(s, AttributeError)
    ELSE IF m.groups[1] \notin DOMAIN s.lists THEN Fail(s, KeyError(m.groups[1]))
    ELSE filter_list_each(s, m.groups[1], m.groups[2], s.lists[m.groups[1]])

\* lines 258-260
filter_list(s, line) == filter_list_match(s, match_name_arg(line, kw_filter))

\* ------------------------------------------------------------------------
\* Statement dispatch (exec_line)
\* ------------------------------------------------------------------------

LogEntry(s, line, via, cid, idx) ==
    [line |-> line, pc |-> s.pc, via |-> via, cid |-> cid, idx |-> idx,
     collecting |-> s.defining_proc]

\* line 78
call_name(line) == Replace(Words(line)[2], <<";">>, <<>>)

\* line 61
proc_name(line) == Replace(Words(line)[3], <<":">>, <<>>)

\* lines 58-65
def_procedure(s, line) ==
    IF ~EndsWith(line, <<":">>) THEN
        Fail(s, Exc("LangError", "Procedure definition must end with ':'", <<>>))
    ELSE IF Len(Words(line)) < 3 THEN Fail(s, IndexError)
    ELSE [s EXCEPT !.defining_proc = TRUE,
                   !.current_proc = proc_name(line),
                   !.proc_buffer = <<>>]

\* lines 67-75
collect(s, line) ==
    IF line = kw_end THEN
        [s EXCEPT !.procedures = Put(@, s.current_proc, s.proc_buffer),
                  !.defining_proc = FALSE,
                  !.current_proc = None,
                  !.proc_buffer = <<>>]
    ELSE [s EXCEPT !.proc_buffer = Append(@, line)]

\* lines 79-81, up to the entry of the loop over the stored lines
call_named(s, name) ==
    IF name \notin DOMAIN s.procedures THEN
        Fail(s, Exc("LangError", "Procedure '{name}' not defined", name))
    ELSE Push([s EXCEPT !.ncalls = @ + 1],
              [CallFrame(name, s.procedures[name], s.ncalls + 1) EXCEPT !.start = s.pc])

\* lines 77-83
call(s, line) == call_named(s, call_name(line))

\* lines 57-112
exec_line(s, line) ==
    IF StartsWith(line, kw_def_procedure) THEN def_procedure(s, line)
    ELSE IF s.defining_proc THEN collect(s, line)
    ELSE IF StartsWith(line, kw_call) THEN call(s, line)
    ELSE IF StartsWith(line, kw_def) THEN def_var(s, line)
    ELSE IF StartsWith(line, kw_console_type) THEN console(s, line)
    ELSE IF StartsWith(line, kw_if) THEN if_block(s, line)
    ELSE IF StartsWith(line, kw_else) THEN skip_block(s)
    ELSE IF StartsWith(line, kw_while) THEN while_block(s, line)
    ELSE IF StartsWith(line, kw_create_list) THEN create_list(s, line)
    ELSE IF StartsWith(line, kw_append) THEN append_list(s, line)
    ELSE IF StartsWith(line, kw_remove) THEN remove_list(s, line)
    ELSE IF StartsWith(line, kw_List) /\ Contains(line, kw_length) THEN list_length(s, line)
    ELSE IF StartsWith(line, kw_filter) THEN filter_list(s, line)
    ELSE IF line = kw_break THEN break_loop(s)
    ELSE IF line = kw_skip THEN skip_loop(s)
    ELSE IF StartsWith(line, kw_return) THEN s
    ELSE Fail(s, Exc("LangError", "Unknown statement: {line}", line))

\* one call of exec_line from the frame on top of the stack, recorded
Dispatch(s, line, via, cid, idx) ==
    exec_line([s EXCEPT !.log = Append(@, LogEntry(s, line, via, cid, idx)),
                        !.ev = Ev("exec", line, s.pc, 0)], line)

\* ------------------------------------------------------------------------
\* The steps of a run.  Each takes an interpreter to the next point where
\* one of its loops is about to test its condition again.
\* ------------------------------------------------------------------------

Begin(s) == [s EXCEPT !.pre = Snapshot(s), !.steps = @ + 1]

\* a turn that ends with "self.pc = 1" in the place of "self.pc += 1"
AdvanceToFirst(s) ==
    SetTop([s EXCEPT !.pc = IF Top(s).pend THEN 1 ELSE @], [Top(s) EXCEPT !.pend = TRUE])

\* the "self.pc += 1" that ends the previous turn of the loop on top
Advance(s) ==
    SetTop([s EXCEPT !.pc = IF Top(s).pend THEN @ + 1 ELSE @], [Top(s) EXCEPT !.pend = TRUE])

\* self.lines[self.pc]
Line(s) == s.lines[s.pc + 1]

\* line 46: the test of the entry header
HasEntry(line) == StartsWith(line, kw_entry)

\* lines 46-48
run_entry(s) ==
    IF s.lines = <<>> THEN Fail(s, IndexError)
    ELSE IF ~HasEntry(s.lines[1]) THEN
        Fail(s, Exc("LangError", "Program must start with When container main(int):", <<>>))
    ELSE [s EXCEPT !.pc = 1, !.status = "running", !.stack = <<RunFrame>>]

\* lines 45-48
run_start(s0) == run_entry([Begin(s0) EXCEPT !.ev = Ev("start", <<>>, 0, 0)])

\* lines 49-53: the loop test, the break test and the next exec_line
run_turn(s) ==
    IF s.pc < Len(s.lines) /\ ~(Line(s) = kw_end /\ ~s.defining_proc) THEN
        Dispatch(s, Line(s), "run", 0, 0)
    ELSE [s EXCEPT !.status = "done", !.stack = <<>>, !.ev = Ev("run_end", <<>>, 0, 0)]

\* lines 49-54
run_step(s0) == run_turn(Advance(Begin(s0)))

\* lines 198-199
if_turn(s) ==
    IF s.pc >= Len(s.lines) THEN
        Fail([s EXCEPT !.ev = Ev("if_end", <<>>, Top(s).start, 0)], IndexError)
    ELSE IF Line(s) /= kw_end THEN Dispatch(s, Line(s), "if", 0, 0)
    ELSE Pop([s EXCEPT !.ev = Ev("if_end", <<>>, Top(s).start, 0)])

\* lines 198-200
if_step(s0) == if_turn(Advance(Begin(s0)))

\* line 209 once the condition is evaluated, then line 210 or lines 214-215
while_branch(s, f, r) ==
    IF ~r.ok THEN Fail([s EXCEPT !.ev = Ev("while_cond", <<>>, f.start, f.iters)], r.exc)
    ELSE IF r.b THEN
        SetTop([s EXCEPT !.pc = f.start + 1, !.ev = Ev("while_true", <<>>, f.start, f.iters + 1)],
               [f EXCEPT !.phase = "body", !.pend = FALSE, !.iters = @ + 1])
    ELSE skip_block(Pop([s EXCEPT !.loop_stack = SubSeq(@, 1, Len(@) - 1),
                                  !.ev = Ev("while_exit", <<>>, f.start, f.iters)]))

while_test(s) == while_branch(s, Top(s), eval_cond(s.vars, Top(s).cond, FALSE, IntV(0)))

\* line 209, and line 210 or lines 214-215
while_cond(s0) == while_test(Begin(s0))

\* lines 211-212
while_turn(s, f) ==
    IF s.pc >= Len(s.lines) THEN
        Fail([s EXCEPT !.ev = Ev("body_end", <<>>, f.start, f.iters)], IndexError)
    ELSE IF Line(s) /= kw_end THEN Dispatch(s, Line(s), "while", 0, 0)
    ELSE SetTop([s EXCEPT !.ev = Ev("body_end", <<>>, f.start, f.iters)],
                [f EXCEPT !.phase = "cond", !.pend = FALSE])

\* lines 211-213
while_body(s0) == while_turn(Advance(Begin(s0)), Top(s0))

\* a loop that hands the stored lines out last first
StoredLineReversed(body, i) == body[Len(body) + 1 - i]

\* the stored line the loop of line 81 hands out at its i-th turn
StoredLine(body, i) == body[i]

\* lines 81-82
call_turn(s, f) ==
    IF f.i > Len(f.body) THEN Pop([s EXCEPT !.ev = Ev("call_end", f.name, f.cid, Len(f.body))])
    ELSE Dispatch(SetTop(s, [f EXCEPT !.i = @ + 1]), StoredLine(f.body, f.i), "call", f.cid, f.i)

\* lines 81-83
call_step(s0) == call_turn(Begin(s0), Top(s0))

\* run(), one step at a time
Step(s) ==
    IF s.status = "new" THEN run_start(s)
    ELSE CASE Top(s).k = "run" -> run_step(s)
           [] Top(s).k = "if" -> if_step(s)
           [] Top(s).k = "while" /\ Top(s).phase = "cond" -> while_cond(s)
           [] Top(s).k = "while" /\ Top(s).phase = "body" -> while_body(s)
           [] Top(s).k = "call" -> call_step(s)

\* ------------------------------------------------------------------------
\* Program texts
\* ------------------------------------------------------------------------

\* When container main(int):
entry_header == <<"W","h","e","n"," ","c","o","n","t","a","i","n","e","r"," ","m","a","i","n","(","i","n","t",")",":">>

\* When container main
entry_short == <<"W","h","e","n"," ","c","o","n","t","a","i","n","e","r"," ","m","a","i","n">>

\* When container mainly:
entry_other == <<"W","h","e","n"," ","c","o","n","t","a","i","n","e","r"," ","m","a","i","n","l","y",":">>

\* when container main(int):
entry_lower == <<"w","h","e","n"," ","c","o","n","t","a","i","n","e","r"," ","m","a","i","n","(","i","n","t",")",":">>

\* End;
l_end == <<"E","n","d",";">>

\* console.type("a");
l_print_a == <<"c","o","n","s","o","l","e",".","t","y","p","e","(","\"","a","\"",")",";">>

\* console.type("b");
l_print_b == <<"c","o","n","s","o","l","e",".","t","y","p","e","(","\"","b","\"",")",";">>

\* console.type("z");
l_print_z == <<"c","o","n","s","o","l","e",".","t","y","p","e","(","\"","z","\"",")",";">>

\* console.type("hi");
l_print_hi == <<"c","o","n","s","o","l","e",".","t","y","p","e","(","\"","h","i","\"",")",";">>

\* console.type(i);
l_print_i == <<"c","o","n","s","o","l","e",".","t","y","p","e","(","i",")",";">>

\* def var x = 1;
l_def_x == <<"d","e","f"," ","v","a","r"," ","x"," ","="," ","1",";">>

\* def var i = i - 1;
l_dec_i == <<"d","e","f"," ","v","a","r"," ","i"," ","="," ","i"," ","-"," ","1",";">>

\* while i > 0:
l_while == <<"w","h","i","l","e"," ","i"," ",">"," ","0",":">>

\* if i > 1:
l_if == <<"i","f"," ","i"," ",">"," ","1",":">>

\* break;
l_break == <<"b","r","e","a","k",";">>

\* skip;
l_skip == <<"s","k","i","p",";">>

\* def procedure p:
l_def_p == <<"d","e","f"," ","p","r","o","c","e","d","u","r","e"," ","p",":">>

\* def procedure q:
l_def_q == <<"d","e","f"," ","p","r","o","c","e","d","u","r","e"," ","q",":">>

\* call p;
l_call_p == <<"c","a","l","l"," ","p",";">>

\* call q;
l_call_q == <<"c","a","l","l"," ","q",";">>

\* bogus;
l_bogus == <<"b","o","g","u","s",";">>

\* create list("a");
l_create_a == <<"c","r","e","a","t","e"," ","l","i","s","t","(","\"","a","\"",")",";">>

\* create list("b");
l_create_b == <<"c","r","e","a","t","e"," ","l","i","s","t","(","\"","b","\"",")",";">>

\* append("a", 1);
l_append_1 == <<"a","p","p","e","n","d","(","\"","a","\"",","," ","1",")",";">>

\* append("a", 2);
l_append_2 == <<"a","p","p","e","n","d","(","\"","a","\"",","," ","2",")",";">>

\* append("a", 0 - 1);
l_append_neg == <<"a","p","p","e","n","d","(","\"","a","\"",","," ","0"," ","-"," ","1",")",";">>

\* append("a", 1.5);
l_append_half == <<"a","p","p","e","n","d","(","\"","a","\"",","," ","1",".","5",")",";">>

\* append("a", "s");
l_append_str == <<"a","p","p","e","n","d","(","\"","a","\"",","," ","\"","s","\"",")",";">>

\* append("b", 1);
l_append_b == <<"a","p","p","e","n","d","(","\"","b","\"",","," ","1",")",";">>

\* remove("a", 1);
l_remove_1 == <<"r","e","m","o","v","e","(","\"","a","\"",","," ","1",")",";">>

\* remove("a", 5);
l_remove_5 == <<"r","e","m","o","v","e","(","\"","a","\"",","," ","5",")",";">>

\* remove("a", 1.0);
l_remove_1f == <<"r","e","m","o","v","e","(","\"","a","\"",","," ","1",".","0",")",";">>

\* remove("a", x + 1);
l_remove_x == <<"r","e","m","o","v","e","(","\"","a","\"",","," ","x"," ","+"," ","1",")",";">>

\* remove("c", 1);
l_remove_c == <<"r","e","m","o","v","e","(","\"","c","\"",","," ","1",")",";">>

\* filter("a", $$ > 1);
l_filter_gt == <<"f","i","l","t","e","r","(","\"","a","\"",","," ","$","$"," ",">"," ","1",")",";">>

\* filter("a", $$ < 2);
l_filter_lt == <<"f","i","l","t","e","r","(","\"","a","\"",","," ","$","$"," ","<"," ","2",")",";">>

\* filter("a", $$ == "s");
l_filter_eq == <<"f","i","l","t","e","r","(","\"","a","\"",","," ","$","$"," ","=","="," ","\"","s","\"",")",";">>

\* filter("c", $$ > 1);
l_filter_c == <<"f","i","l","t","e","r","(","\"","c","\"",","," ","$","$"," ",">"," ","1",")",";">>

\* List a length();
l_length_a == <<"L","i","s","t"," ","a"," ","l","e","n","g","t","h","(",")",";">>

\* List c length();
l_length_c == <<"L","i","s","t"," ","c"," ","l","e","n","g","t","h","(",")",";">>

\* append("c", 1);
l_append_c == <<"a","p","p","e","n","d","(","\"","c","\"",","," ","1",")",";">>

\* create list(a);
l_create_bad == <<"c","r","e","a","t","e"," ","l","i","s","t","(","a",")",";">>

\* console.type(y);
l_print_y == <<"c","o","n","s","o","l","e",".","t","y","p","e","(","y",")",";">>

\* else:
l_else == <<"e","l","s","e",":">>

\* if 1 == 1:
l_if_true == <<"i","f"," ","1"," ","=","="," ","1",":">>

\* while 1 == 1:
l_while_true == <<"w","h","i","l","e"," ","1"," ","=","="," ","1",":">>

\*   console.type("a");  
r_print_a == <<" "," ","c","o","n","s","o","l","e",".","t","y","p","e","(","\"","a","\"",")",";"," "," ">>

\* ''
r_blank == <<>>

\* '   '
r_spaces == <<" "," "," ">>

\* # c
r_hash == <<"#"," ","c">>

\*   # d
r_hash_in == <<" "," ","#"," ","d">>

\* // c
r_open == <<"/","/"," ","c">>

\* \\
r_close == <<"\\","\\">>

\* // c \\
r_one_line == <<"/","/"," ","c"," ","\\","\\">>

\* ------------------------------------------------------------------------
\* The programs the interpreter is run on
\* ------------------------------------------------------------------------

\* the sequences over S of length at most n
SeqsUpTo(S, n) == UNION {[1..k -> S] : k \in 0..n}

MaxBody == 3

MaxCount == 2

MaxProcBody == 2

MaxCalls == 2

MaxElems == 3

MaxOperands == 3

MaxRaw == 3

MaxSteps == 40

\* entry headers, right and wrong, before one statement
EntryPrograms ==
    {<<h>> \o b \o <<l_end>> :
        h \in {entry_header, entry_short, entry_other, entry_lower, l_print_z},
        b \in {<<l_print_a>>, <<l_def_x, l_create_a>>}}
    \cup {<<>>, <<r_hash>>, <<r_blank, r_spaces>>, <<entry_header>>, <<l_end>>}

\* def var i = n;
DefI(n) == <<"d","e","f"," ","v","a","r"," ","i"," ","="," ">> \o NatStr(n) \o <<";">>

WhileLib == {l_dec_i, l_print_b, l_if, l_end, l_break}

WhileTails == {<<>>, <<l_print_z, l_end>>}

\* a counting loop over a body, followed by a tail
WhilePrograms ==
    {<<entry_header, DefI(n), l_while>> \o b \o <<l_end>> \o t :
        n \in 0..MaxCount, b \in SeqsUpTo(WhileLib, MaxBody), t \in WhileTails}

ProcLib == {l_print_hi, l_def_x, l_call_q, l_bogus}

CallLib == {l_call_p, l_call_q, l_print_z}

\* a procedure p (and, or not, a procedure q) and calls
ProcPrograms ==
    {<<entry_header>> \o q \o <<l_def_p>> \o b \o <<l_end>> \o c \o <<l_end>> :
        q \in {<<>>, <<l_def_q, l_print_b, l_end>>},
        b \in SeqsUpTo(ProcLib, MaxProcBody), c \in SeqsUpTo(CallLib, MaxCalls)}

AppendLib == {l_append_1, l_append_2, l_append_neg, l_append_half, l_append_str}

ListOps ==
    {l_remove_1, l_remove_5, l_remove_1f, l_remove_x, l_remove_c, l_filter_gt, l_filter_lt,
     l_filter_eq, l_filter_c, l_length_a, l_length_c, l_append_c, l_create_bad}

\* two lists and a variable, appends, then one list operation
ListPrograms ==
    {<<entry_header, l_def_x, l_create_a, l_create_b, l_append_b>> \o a \o <<o, l_length_a, l_end>> :
        a \in SeqsUpTo(AppendLib, MaxElems), o \in ListOps}

ExprLits == {<<"0">>, <<"1">>, <<"2">>}

ExprOps == {<<"+">>, <<"*", "*">>, <<"*">>, <<"/">>, <<"-">>}

\* literal (operator literal)*, separated by single spaces
RECURSIVE Fragments(_)
Fragments(k) ==
    IF k = 1 THEN ExprLits
    ELSE {f \o <<" ">> \o o \o <<" ">> \o l : f \in Fragments(k - 1), o \in ExprOps, l \in ExprLits}

ExprExamples ==
    {<<"2", " ", "+", " ", "3">>, <<"2", " ", "-", " ", "3", " ", "-", " ", "1">>}

ExprFragments == ExprExamples \cup UNION {Fragments(k) : k \in 1..MaxOperands}

\* def var x = fragment;
DefX(fragment) == <<"d","e","f"," ","v","a","r"," ","x"," ","="," ">> \o fragment \o <<";">>

ExprPrograms == {<<entry_header, DefX(f), l_print_a, l_end>> : f \in ExprFragments}

RawLib ==
    {r_print_a, r_blank, r_spaces, r_hash, r_hash_in, r_open, r_close, r_one_line}

\* physical lines with comments and blanks among them
RawPrograms ==
    {<<entry_header>> \o r \o <<l_end>> : r \in SeqsUpTo(RawLib, MaxRaw)}

\* statements that fail
FaultPrograms ==
    {<<entry_header>> \o b \o <<l_end>> :
        b \in {<<l_print_y>>, <<l_append_c>>, <<l_remove_c>>, <<l_filter_c>>, <<l_length_c>>,
               <<l_call_q>>, <<l_create_bad>>, <<l_bogus>>}}
    \cup {<<entry_header>> \o b :
        b \in {<<l_if, l_print_a>>, <<l_if_true, l_print_a>>, <<l_while, l_print_a>>,
               <<l_else, l_print_a>>, <<l_break>>, <<l_skip>>,
               <<l_def_x, l_if, l_print_a>>}}

Sources ==
    EntryPrograms \cup WhilePrograms \cup ProcPrograms \cup ListPrograms
        \cup ExprPrograms \cup RawPrograms \cup FaultPrograms

\* ------------------------------------------------------------------------
\* The web boundary (app.py, run_code).  sys.stdout is one name of the
\* process: app.sys_stdout is the stream it is bound to, a place in
\* app.buffers, whose first stream is the one the process started with.
\* Every request is served on a thread of its own.
\* ------------------------------------------------------------------------

Threads == {1, 2}

MaxRequests == 1

NoRequest ==
    [at |-> "idle", code |-> <<>>, old_stdout |-> 0, mystdout |-> 0,
     it |-> Interpreter(<<>>), output |-> <<>>, ok |-> FALSE, served |-> 0]

NoApp == [sys_stdout |-> 1, buffers |-> << <<>> >>, req |-> [t \in Threads |-> NoRequest]]

\* the programs requests carry
AppPrograms ==
    {<<entry_header, l_print_a, l_end>>,
     <<entry_header, l_print_b, l_print_z, l_end>>,
     <<entry_header, l_print_hi, l_print_y, l_end>>}

\* line 12
receive(a, t, code) ==
    [a EXCEPT !.req[t] = [NoRequest EXCEPT !.at = "l16", !.code = code, !.served = a.req[t].served + 1]]

\* line 16
save_stdout(a, t) == [a EXCEPT !.req[t].old_stdout = a.sys_stdout, !.req[t].at = "l17"]

\* line 17: a new StringIO, bound to mystdout and to sys.stdout
swap_stdout(a, t) ==
    [a EXCEPT !.buffers = Append(@, <<>>),
              !.sys_stdout = Len(a.buffers) + 1,
              !.req[t].mystdout = Len(a.buffers) + 1,
              !.req[t].at = "l19"]

\* line 19: Interpreter(code)
construct(a, t) == [a EXCEPT !.req[t].it = Interpreter(a.req[t].code), !.req[t].at = "run"]

\* where run_code goes on once run() has returned or raised
After(it) == IF it.status = "done" THEN "l21" ELSE IF it.status = "error" THEN "l24" ELSE "run"

\* print writes to the stream sys.stdout is bound to when it is called
Written(a, before, after) ==
    [a EXCEPT !.buffers[a.sys_stdout] = @ \o SubSeq(after.out, Len(before.out) + 1, Len(after.out))]

\* line 19: one step of run(), it1 being the interpreter after it
run_to(a, t, it1) ==
    [Written(a, a.req[t].it, it1) EXCEPT !.req[t].it = it1, !.req[t].at = After(it1)]

run_interp(a, t) == run_to(a, t, Step(a.req[t].it))

\* line 21
restore_stdout(a, t) == [a EXCEPT !.sys_stdout = a.req[t].old_stdout, !.req[t].at = "l22"]

\* lines 22-23: mystdout.getvalue(), a line of text for each print
respond(a, t) ==
    [a EXCEPT !.req[t].output = a.buffers[a.req[t].mystdout], !.req[t].ok = TRUE,
              !.req[t].at = "done"]

\* lines 24-25: str(e)
respond_error(a, t) ==
    [a EXCEPT !.req[t].output = <<a.req[t].it.exc.msg>>, !.req[t].at = "done"]

\* ------------------------------------------------------------------------
\* The interpreter under run
\* ------------------------------------------------------------------------

VARIABLES interp, app

vars == <<interp, app>>

Init ==
    /\ interp \in {Interpreter(src) : src \in Sources}
    /\ app = NoApp

Running(k) ==
    /\ interp.status = "running"
    /\ interp.steps < MaxSteps
    /\ Top(interp).k = k

\* run(), lines 45-48
Start ==
    /\ interp.status = "new"
    /\ interp' = run_start(interp)
    /\ UNCHANGED app

\* run(), lines 49-54
RunStep ==
    /\ Running("run")
    /\ interp' = run_step(interp)
    /\ UNCHANGED app

\* if_block, lines 198-200
IfStep ==
    /\ Running("if")
    /\ interp' = if_step(interp)
    /\ UNCHANGED app

\* while_block, line 209 and lines 210, 214-215
WhileCond ==
    /\ Running("while")
    /\ Top(interp).phase = "cond"
    /\ interp' = while_cond(interp)
    /\ UNCHANGED app

\* while_block, lines 211-213
WhileBody ==
    /\ Running("while")
    /\ Top(interp).phase = "body"
    /\ interp' = while_body(interp)
    /\ UNCHANGED app

\* exec_line, lines 81-83
CallStep ==
    /\ Running("call")
    /\ interp' = call_step(interp)
    /\ UNCHANGED app

Next == Start \/ RunStep \/ IfStep \/ WhileCond \/ WhileBody \/ CallStep

Spec == Init /\ [][Next]_vars

\* ------------------------------------------------------------------------
\* Requests under service
\* ------------------------------------------------------------------------

InitApp ==
    /\ interp = Interpreter(<<>>)
    /\ app = NoApp

At(t, at) == app.req[t].at = at

\* run_code, line 12
Receive(t) ==
    /\ At(t, "idle") \/ At(t, "done")
    /\ app.req[t].served < MaxRequests
    /\ \E code \in AppPrograms : app' = receive(app, t, code)
    /\ UNCHANGED interp

\* run_code, line 16
SaveStdout(t) ==
    /\ At(t, "l16")
    /\ app' = save_stdout(app, t)
    /\ UNCHANGED interp

\* run_code, line 17
SwapStdout(t) ==
    /\ At(t, "l17")
    /\ app' = swap_stdout(app, t)
    /\ UNCHANGED interp

\* run_code, line 19: the constructor
Construct(t) ==
    /\ At(t, "l19")
    /\ app' = construct(app, t)
    /\ UNCHANGED interp

\* run_code, line 19: run()
RunInterp(t) ==
    /\ At(t, "run")
    /\ app' = run_interp(app, t)
    /\ UNCHANGED interp

\* run_code, line 21
RestoreStdout(t) ==
    /\ At(t, "l21")
    /\ app' = restore_stdout(app, t)
    /\ UNCHANGED interp

\* run_code, lines 22-23
Respond(t) ==
    /\ At(t, "l22")
    /\ app' = respond(app, t)
    /\ UNCHANGED interp

\* run_code, lines 24-25
RespondError(t) ==
    /\ At(t, "l24")
    /\ app' = respond_error(app, t)
    /\ UNCHANGED interp

NextApp ==
    \E t \in Threads :
        \/ Receive(t)
        \/ SaveStdout(t)
        \/ SwapStdout(t)
        \/ Construct(t)
        \/ RunInterp(t)
        \/ RestoreStdout(t)
        \/ Respond(t)
        \/ RespondError(t)

SpecApp == InitApp /\ [][NextApp]_vars

\* ------------------------------------------------------------------------
\* Properties of a run
\* ------------------------------------------------------------------------

EntryError == Exc("LangError", "Program must start with When container main(int):", <<>>)

\* no statement has been dispatched, no store is changed, nothing is printed
Untouched(s) ==
    /\ s.log = <<>>
    /\ s.vars = <<>> /\ s.consts = {} /\ s.lists = <<>> /\ s.procedures = <<>>
    /\ s.out = <<>>

\* the preprocessed lines do not begin with the entry header line
LacksEntry(s) == s.lines = <<>> \/ s.lines[1] /= entry_header

\* C1: a run of a program whose preprocessed lines do not begin with the line
\* "When container main(int):" (a program with no lines included) fails with
\* the entry-header LangError, and no statement is dispatched, no store is
\* changed and nothing is printed.
C1_EntryHeaderRequired ==
    (interp.status /= "new" /\ LacksEntry(interp)) =>
        /\ interp.status = "error"
        /\ interp.exc = EntryError
        /\ Untouched(interp)

\* C1, the part the code keeps: a first line that does not start with
\* "When container main" ends the run with the entry-header LangError before
\* anything is dispatched.
C1_PrefixRequired ==
    (interp.status /= "new" /\ interp.lines /= <<>> /\ ~HasEntry(interp.lines[1])) =>
        /\ interp.status = "error"
        /\ interp.exc = EntryError
        /\ Untouched(interp)

\* a program with no lines has been run
C1_EmptyRun == interp.status /= "new" /\ interp.lines = <<>>

\* a program whose first line is "When container main", and no more, has run
\* to its end and printed
C1_ShortHeaderRun ==
    /\ interp.lines /= <<>> /\ interp.lines[1] = entry_short
    /\ interp.status = "done" /\ interp.out /= <<>>

\* a program whose first line does not start with "When container main" has
\* been run
C1_PrefixWitness ==
    /\ interp.status = "error" /\ interp.lines /= <<>> /\ ~HasEntry(interp.lines[1])
    /\ Len(interp.lines) >= 3

\* ------------------------------------------------------------------------
\* while: where the counter is left
\* ------------------------------------------------------------------------

\* block headers less block ends among the lines at counters a..j
Nesting(lines, a, j) ==
    Cardinality({i \in a..j : EndsWith(lines[i + 1], <<":">>)})
        - Cardinality({i \in a..j : lines[i + 1] = kw_end})

\* the counter of the End; that closes the block whose header is at counter
\* start, 0 if nothing closes it
MatchingEnd(lines, start) ==
    FirstOf({j \in (start + 1)..(Len(lines) - 1) : Nesting(lines, start, j) = 0})

\* the last statement dispatched
LastLog(s) == s.log[Len(s.log)]

\* the while loop whose header is at counter ev.start has just ended, no
\* body line dispatched since its header was, and the counter is on the End;
\* that closes it, so that the statement after that End; is the next to run
ResumesAfterLoop(s) ==
    /\ s.status = "running"
    /\ s.pc = MatchingEnd(s.lines, s.ev.start)

\* C2: a while block whose condition is false at its first check runs no
\* line of its body, and the next statement run is the one after the End;
\* that closes the loop, whatever the body is.
C2_WhileFalseAtFirst ==
    (interp.ev.op = "while_exit" /\ interp.ev.iters = 0) =>
        /\ LastLog(interp).pc = interp.ev.start
        /\ ResumesAfterLoop(interp)

\* a loop with an empty body has ended at its first check
C2_EmptyBodyExit ==
    /\ interp.ev.op = "while_exit" /\ interp.ev.iters = 0
    /\ interp.lines[interp.ev.start + 2] = kw_end

\* C10: a while block that ran its body once or more and whose condition
\* then became false ends with the counter on the End; that closes it, so
\* that the statement after the loop is the next to run and none is skipped.
C10_WhileExitResumes ==
    (interp.ev.op = "while_exit" /\ interp.ev.iters >= 1) => ResumesAfterLoop(interp)

\* a loop has ended after one turn or more of its body
C10_ExitAfterTurns == interp.ev.op = "while_exit" /\ interp.ev.iters >= 1

\* ------------------------------------------------------------------------
\* Procedure calls
\* ------------------------------------------------------------------------

\* the places in the log of the lines dispatched by the call numbered cid
CallPlaces(s, cid) == {k \in 1..Len(s.log) : s.log[k].via = "call" /\ s.log[k].cid = cid}

\* the call numbered cid has dispatched the first n stored lines of body,
\* each once, in stored order, and no other line
DispatchedInOrder(s, cid, body, n) ==
    /\ n <= Len(body)
    /\ Cardinality(CallPlaces(s, cid)) = n
    /\ \A k \in CallPlaces(s, cid) :
        /\ s.log[k].idx \in 1..n
        /\ s.log[k].line = body[s.log[k].idx]
        /\ \A j \in CallPlaces(s, cid) : j < k => s.log[j].idx < s.log[k].idx

\* the line dispatched last is a call, outside of a definition, of a name
\* that is not in the registry
UndefinedCall(s) ==
    /\ s.ev.op = "exec" /\ StartsWith(s.ev.line, kw_call)
    /\ ~s.pre.defining_proc
    /\ call_name(s.ev.line) \notin DOMAIN s.pre.procedures

\* how many of the lines of text are the line
Count(text, line) == Cardinality({k \in 1..Len(text) : text[k] = line})

\* the calls of p made so far: the dispatches of "call p;" outside of a
\* definition
CallsOfP(s) ==
    Cardinality({k \in 1..Len(s.log) : s.log[k].line = l_call_p /\ ~s.log[k].collecting})

\* C3: a call of a defined procedure dispatches the stored lines of that
\* procedure each once and in stored order: while the call is in progress
\* the lines it has dispatched are the first ones of the registry's entry,
\* in order, and when it returns they are all of them; with
\* console.type("hi"); for body, a run that ends has printed hi once for
\* each call.  A call of a name that is not in the registry raises the
\* LangError "Procedure '<name>' not defined", and changes and prints
\* nothing.
C3_CallDispatch ==
    /\ \A k \in 1..Len(interp.stack) :
        interp.stack[k].k = "call" =>
            /\ interp.stack[k].name \in DOMAIN interp.procedures
            /\ DispatchedInOrder(interp, interp.stack[k].cid,
                                 interp.procedures[interp.stack[k].name], interp.stack[k].i - 1)
    /\ interp.ev.op = "call_end" =>
            DispatchedInOrder(interp, interp.ev.start, interp.procedures[interp.ev.line],
                              Len(interp.procedures[interp.ev.line]))
    /\ (/\ interp.status = "done"
        /\ <<"p">> \in DOMAIN interp.procedures
        /\ interp.procedures[<<"p">>] = <<l_print_hi>>) =>
            Count(interp.out, <<"h", "i">>) = CallsOfP(interp)
    /\ UndefinedCall(interp) =>
            /\ interp.status = "error"
            /\ interp.exc = Exc("LangError", "Procedure '{name}' not defined", call_name(interp.ev.line))
            /\ interp.vars = interp.pre.vars /\ interp.lists = interp.pre.lists
            /\ interp.procedures = interp.pre.procedures /\ interp.out = interp.pre.out
            /\ LastLog(interp).line = interp.ev.line

\* the second call of a procedure of two stored lines has returned
C3_SecondCallReturned ==
    /\ interp.ev.op = "call_end"
    /\ interp.ev.start = 2
    /\ interp.ev.iters = 2
    /\ interp.procedures[interp.ev.line][1] /= interp.procedures[interp.ev.line][2]

\* ------------------------------------------------------------------------
\* Lists
\* ------------------------------------------------------------------------

\* the statement dispatched last is "word(...)", outside of a definition
Ran(s, word) == s.ev.op = "exec" /\ StartsWith(s.ev.line, word) /\ ~s.pre.defining_proc

\* the name and the argument of the list statement dispatched last
ListName(s, word) == match_name_arg(s.ev.line, word).groups[1]

ListArg(s, word) == match_name_arg(s.ev.line, word).groups[2]

\* the statement dispatched last is word("name", arg); for a list that exists
RanOnList(s, word) ==
    /\ Ran(s, word)
    /\ match_name_arg(s.ev.line, word).ok
    /\ ListName(s, word) \in DOMAIN s.pre.lists

\* cond with the placeholder bound to the element x: $$ is a name whose
\* value is x
Bound(V, cond, x) == eval_cond(Put(V, Placeholder, x), cond, FALSE, x)

\* the elements of xs for which cond is true, in their order
RECURSIVE Kept(_, _, _)
Kept(V, cond, xs) ==
    IF xs = <<>> THEN <<>>
    ELSE (IF Bound(V, cond, Head(xs)).b THEN <<Head(xs)>> ELSE <<>>) \o Kept(V, cond, Tail(xs))

\* cond has a truth value for every element of xs
Decided(V, cond, xs) == \A i \in 1..Len(xs) : Bound(V, cond, xs[i]).ok

\* C4: filter("name", cond); leaves the list equal to the subsequence of its
\* previous elements for which cond, with $$ bound to the element, is true,
\* in their order, for lists of integers of either sign, floats and strings.
C4_FilterKeepsTrueElements ==
    (/\ RanOnList(interp, kw_filter)
     /\ Decided(interp.pre.vars, ListArg(interp, kw_filter),
                interp.pre.lists[ListName(interp, kw_filter)])) =>
        /\ interp.status /= "error"
        /\ interp.lists[ListName(interp, kw_filter)] =
              Kept(interp.pre.vars, ListArg(interp, kw_filter),
                   interp.pre.lists[ListName(interp, kw_filter)])

\* C4, the part the code keeps: on a list of integers that are not negative
\* the filter keeps the elements for which the condition is true.
C4_FilterOnNaturals ==
    (/\ RanOnList(interp, kw_filter)
     /\ \A i \in 1..Len(interp.pre.lists[ListName(interp, kw_filter)]) :
            /\ interp.pre.lists[ListName(interp, kw_filter)][i].t = "int"
            /\ interp.pre.lists[ListName(interp, kw_filter)][i].n >= 0
     /\ Decided(interp.pre.vars, ListArg(interp, kw_filter),
                interp.pre.lists[ListName(interp, kw_filter)])) =>
        /\ interp.status /= "error"
        /\ interp.lists[ListName(interp, kw_filter)] =
              Kept(interp.pre.vars, ListArg(interp, kw_filter),
                   interp.pre.lists[ListName(interp, kw_filter)])

\* the list [1, 2] has been filtered by $$ > 1
C4_FilterOneTwo ==
    /\ RanOnList(interp, kw_filter)
    /\ interp.ev.line = l_filter_gt
    /\ interp.pre.lists[ListName(interp, kw_filter)] = <<IntV(1), IntV(2)>>
    /\ interp.lists[ListName(interp, kw_filter)] = <<IntV(2)>>

\* the places of xs whose element equals val
Equal(xs, val) == {k \in 1..Len(xs) : ValEq(xs[k], val)}

\* ys is xs less its element at place i
Less(ys, xs, i) ==
    /\ Len(ys) = Len(xs) - 1
    /\ \A j \in 1..Len(ys) : ys[j] = xs[IF j < i THEN j ELSE j + 1]

\* the effect of remove on the list xs, left as ys, for the value val
Removed(xs, ys, val) ==
    /\ Equal(xs, val) = {} => ys = xs
    /\ Equal(xs, val) /= {} =>
            \E i \in Equal(xs, val) : (\A k \in Equal(xs, val) : i <= k) /\ Less(ys, xs, i)

\* C5: remove("name", expr); on a list that exists leaves the list as it was
\* if no element equals the value of expr; otherwise the first element equal
\* to it goes, the length drops by one and the other elements keep their
\* order.  No other list, no variable and no constant changes.
C5_RemoveFirstEqual ==
    (/\ RanOnList(interp, kw_remove)
     /\ eval_expr(interp.pre.vars, ListArg(interp, kw_remove)).ok) =>
        /\ interp.status /= "error"
        /\ Removed(interp.pre.lists[ListName(interp, kw_remove)],
                   interp.lists[ListName(interp, kw_remove)],
                   eval_expr(interp.pre.vars, ListArg(interp, kw_remove)).v)
        /\ DOMAIN interp.lists = DOMAIN interp.pre.lists
        /\ \A n \in DOMAIN interp.lists :
               n /= ListName(interp, kw_remove) => interp.lists[n] = interp.pre.lists[n]
        /\ interp.vars = interp.pre.vars
        /\ interp.consts = interp.pre.consts
        /\ interp.out = interp.pre.out

\* a value has been removed from a list that holds it twice, with another
\* element between the two
C5_RemovedFromTwo ==
    /\ RanOnList(interp, kw_remove)
    /\ eval_expr(interp.pre.vars, ListArg(interp, kw_remove)).ok
    /\ Equal(interp.pre.lists[ListName(interp, kw_remove)],
             eval_expr(interp.pre.vars, ListArg(interp, kw_remove)).v) = {1, 3}
    /\ Len(interp.lists[ListName(interp, kw_remove)]) = 2

\* ------------------------------------------------------------------------
\* Expressions: the rule order
\* ------------------------------------------------------------------------

\* the operator op applied to the numbers a and b, and nothing else
RefApply(op, a, b) ==
    IF op = <<"/">> /\ b.n = 0 THEN Raise("ZeroDivisionError", "division by zero", <<>>)
    ELSE IF op = <<"*", "*">> /\ a.n = 0 /\ b.n < 0 THEN
        Raise("ZeroDivisionError", "0.0 cannot be raised to a negative power", <<>>)
    ELSE Ok(Apply(op, a, b))

RefBin(op, a, b) == IF ~a.ok THEN a ELSE IF ~b.ok THEN b ELSE RefApply(op, a.v, b.v)

RECURSIVE RefEval(_)
RECURSIVE RefParts(_)
RECURSIVE RefSplit(_, _)
RECURSIVE RefOperands(_, _)

\* the reference rules on a fragment of integer literals and operators:
\* with a "+" in it, the concatenation of the string forms of its parts;
\* a literal; else the first operator present among **, *, /, -, applied
\* at its first occurrence to the parts left and right of it
RefEval(fragment) ==
    IF Contains(fragment, <<"+">>) THEN RefParts(Split(fragment, <<"+">>))
    ELSE IF IsDigit(Strip(fragment)) THEN Ok(IntV(ParseInt(Strip(fragment))))
    ELSE RefSplit(Strip(fragment), FirstOp(fragment, ArithOps))

RefParts(parts) == Concat([i \in 1..Len(parts) |-> RefEval(parts[i])])

RefSplit(fragment, k) ==
    IF k = 0 THEN Raise("LangError", "Invalid expression: {expr}", fragment)
    ELSE RefOperands(ArithOps[k], SplitOp(fragment, ArithOps[k]))

RefOperands(op, ab) == RefBin(op, RefEval(ab[1]), RefEval(ab[2]))

\* the expression of the definition dispatched last
DefExpr(s) == match_def_var(s.ev.line).groups[3]

DefName(s) == match_def_var(s.ev.line).groups[2]

\* the statement dispatched last is the definition of a variable by a
\* fragment of integer literals and operators that the reference rules
\* give a value
DefinedByFragment(s) ==
    /\ Ran(s, kw_def)
    /\ match_def_var(s.ev.line).ok
    /\ RefEval(DefExpr(s)).ok

\* C6: eval_expr agrees with the reference rule order on every fragment of
\* integer literals and the operators +, **, *, /, -: concatenation of the
\* string forms of the parts when there is a "+", else the first operator
\* present in the order **, *, /, - applied at its first occurrence, the
\* whole remainder being the right operand.
C6_RuleOrder ==
    DefinedByFragment(interp) =>
        /\ interp.status /= "error"
        /\ interp.vars[DefName(interp)] = RefEval(DefExpr(interp)).v

\* C6, the two examples: 2 + 3 gives the string "23", and 2 - 3 - 1 gives 0.
C6_Examples ==
    /\ (Ran(interp, kw_def) /\ interp.ev.line = DefX(<<"2", " ", "+", " ", "3">>)) =>
            interp.status /= "error" /\ interp.vars[<<"x">>] = StrV(<<"2", "3">>)
    /\ (Ran(interp, kw_def)
            /\ interp.ev.line = DefX(<<"2", " ", "-", " ", "3", " ", "-", " ", "1">>)) =>
            interp.status /= "error" /\ interp.vars[<<"x">>] = IntV(0)

\* x has been defined by 2 - 3 - 1
C6_RightHeavy ==
    /\ Ran(interp, kw_def)
    /\ interp.ev.line = DefX(<<"2", " ", "-", " ", "3", " ", "-", " ", "1">>)
    /\ interp.status = "running"

\* ------------------------------------------------------------------------
\* Preprocessing
\* ------------------------------------------------------------------------

Opens(l) == StartsWith(Strip(l), kw_comment_open)

Closes(l) == StartsWith(Strip(l), kw_comment_close)

\* a comment block opened and closed on the one line
OneLine(l) == Opens(l) /\ EndsWith(Strip(l), kw_comment_close)

\* the line at place i lies in a comment block: between a line that opens
\* one and the first line after it that closes one, both included
InBlock(L, i, opens(_)) ==
    \E o \in 1..i :
        /\ opens(L[o])
        /\ \E c \in i..Len(L) : c > o /\ Closes(L[c])
        /\ \A k \in (o + 1)..(i - 1) : ~Closes(L[k])

\* the places whose lines are deleted by hand: blank lines, # lines and the
\* lines of comment blocks
Deleted(L, opens(_), alone(_)) ==
    {i \in 1..Len(L) :
        \/ Strip(L[i]) = <<>>
        \/ StartsWith(Strip(L[i]), kw_hash)
        \/ alone(L[i])
        \/ InBlock(L, i, opens)}

\* the lines at the places of L that are not in D, trimmed, in their order
RECURSIVE Surviving(_, _, _)
Surviving(L, D, i) ==
    IF i > Len(L) THEN <<>>
    ELSE (IF i \in D THEN <<>> ELSE <<Strip(L[i])>>) \o Surviving(L, D, i + 1)

\* every line that opens a block has a line after it that closes one, and
\* a line that closes one lies in a block
Closed(L, opens(_)) ==
    \A i \in 1..Len(L) :
        /\ opens(L[i]) => \E c \in (i + 1)..Len(L) : Closes(L[c])
        /\ (Closes(L[i]) /\ ~OneLine(L[i])) => InBlock(L, i, opens)

\* a block is opened by a line that begins with //, whatever follows on it
OpensAny(l) == Opens(l)

\* a block is opened by a line that begins with // and does not end it
OpensOnly(l) == Opens(l) /\ ~OneLine(l)

Never(l) == FALSE

\* C7 as stated: with comment blocks opened and closed on separate lines or
\* on one line, _preprocess returns the lines of the program with the # lines,
\* the blank lines and the comment blocks deleted by hand, trimmed and in order.
C7_RoundTripOneLine ==
    Closed(interp.raw, OpensOnly) =>
        interp.lines = Surviving(interp.raw, Deleted(interp.raw, OpensOnly, OneLine), 1)

\* C7, amended: when every comment block is opened by a line that begins
\* with // and closed by a later line that begins with \\, and no other line
\* begins with \\, _preprocess returns the lines of the program with the
\* # lines, the blank lines and the comment blocks deleted by hand: every
\* other line survives, trimmed, in its order.
C7_RoundTrip ==
    Closed(interp.raw, OpensAny) =>
        interp.lines = Surviving(interp.raw, Deleted(interp.raw, OpensAny, Never), 1)

\* a program with a comment block closed on a later line, and a statement
\* after the block that survives
C7_BlockThenStatement ==
    /\ Closed(interp.raw, OpensAny)
    /\ \E o \in 1..Len(interp.raw) : \E c \in 1..Len(interp.raw) :
        /\ o < c /\ Opens(interp.raw[o]) /\ Closes(interp.raw[c])
        /\ c + 2 = Len(interp.raw)
        /\ interp.raw[c + 1] = r_print_a
    /\ interp.lines = <<entry_header, l_print_a, l_end>>

\* ------------------------------------------------------------------------
\* Errors
\* ------------------------------------------------------------------------

\* C8: a run that does not complete normally fails with a LangError, and
\* with no fault of another kind.
C8_SingleErrorKind == interp.status = "error" => interp.exc.kind = "LangError"

\* C8, the part the code keeps: an undefined variable and an undefined
\* procedure raise a LangError.
C8_UndefinedNameIsLangError ==
    /\ (interp.status = "error" /\ interp.ev.op = "exec" /\ interp.ev.line = l_print_y) =>
            interp.exc.kind = "LangError"
    /\ UndefinedCall(interp) => interp.exc.kind = "LangError"

\* a list statement on a list that does not exist has ended the run
C8_UndefinedListFault ==
    /\ interp.status = "error"
    /\ interp.ev.op = "exec" /\ interp.ev.line = l_append_c

\* ------------------------------------------------------------------------
\* The web boundary
\* ------------------------------------------------------------------------

\* the request of thread t has been answered with the output of a run that
\* completed
Answered(t) == app.req[t].at = "done" /\ app.req[t].ok

\* C9: under every interleaving of the requests, the output returned for a
\* run that completed is the lines that run printed, in order: none of
\* another run's, and all of its own.
C9_RunIsolation ==
    \A t \in Threads : Answered(t) => app.req[t].output = app.req[t].it.out

\* two requests whose runs completed have been answered
C9_TwoAnswered == \A t \in Threads : Answered(t)

\* ------------------------------------------------------------------------
\* Programs of blocks: if and else, loops with break and skip, procedures
\* whose stored lines are control-flow lines, definitions inside blocks,
\* negated conditions, and one name in the three stores
\* ------------------------------------------------------------------------

\* if 1 == 2:
l_if_false == <<"i","f"," ","1"," ","=","="," ","2",":">>

\* def var a = 1;
l_def_a == <<"d","e","f"," ","v","a","r"," ","a"," ","="," ","1",";">>

\* def const a = 2;
l_const_a == <<"d","e","f"," ","c","o","n","s","t"," ","a"," ","="," ","2",";">>

\* def procedure a:
l_def_proc_a == <<"d","e","f"," ","p","r","o","c","e","d","u","r","e"," ","a",":">>

\* call a;
l_call_a == <<"c","a","l","l"," ","a",";">>

MaxIfBody == 3

MaxLoopBody == 2

MaxFlowProc == 2

MaxNameOps == 2

IfLib == {l_print_b, l_dec_i, l_if_true, l_while, l_end}

ElseTails ==
    {<<>>, <<l_else, l_end>>, <<l_else, l_print_a, l_def_x, l_end>>,
     <<l_else, l_if_true, l_print_a, l_end, l_def_x, l_end>>}

\* an if block over a body, an else block or none after it, then a tail
IfPrograms ==
    {<<entry_header, DefI(n), l_if>> \o b \o <<l_end>> \o e \o <<l_print_z, l_end>> :
        n \in 1..MaxCount, b \in SeqsUpTo(IfLib, MaxIfBody), e \in ElseTails}

LoopLib == {l_dec_i, l_print_b, l_break, l_skip, l_if_true, l_end}

LoopTails == {<<l_print_z, l_end>>, <<l_print_z, l_end, l_print_a, l_end>>}

\* a counting loop whose body starts by counting down, with break; and skip;
LoopPrograms ==
    {<<entry_header, DefI(n), l_while, l_dec_i>> \o b \o <<l_end>> \o t :
        n \in 0..MaxCount, b \in SeqsUpTo(LoopLib, MaxLoopBody), t \in LoopTails}

\* a loop in the body of a loop, a loop in the body of an if block
NestedPrograms ==
    {<<entry_header, DefI(n), l_while, l_while, l_dec_i, l_end, l_print_b, l_end, l_print_z, l_end>> :
        n \in 0..MaxCount}
    \cup {<<entry_header, DefI(n), l_if_true, l_while, l_dec_i, l_end, l_print_a, l_end,
            l_print_z, l_end>> : n \in 0..MaxCount}

FlowProcLib == {l_print_hi, l_if_true, l_if_false, l_else, l_break, l_skip}

\* a procedure whose stored lines are control-flow lines, and a call of it
FlowProcPrograms ==
    {<<entry_header, l_def_p>> \o b \o <<l_end, l_call_p, l_print_a, l_end, l_print_z, l_end>> :
        b \in SeqsUpTo(FlowProcLib, MaxFlowProc)}

DefLib == {l_print_hi, l_def_x, l_call_q, l_create_a, l_else}

\* a definition at the top of the program or in an if block, lines after
\* it, and a call
DefPrograms ==
    {<<entry_header>> \o h \o <<l_def_p>> \o b \o <<l_end>> \o t \o <<l_call_p, l_end>> :
        h \in {<<>>, <<l_if_true>>}, b \in SeqsUpTo(DefLib, MaxFlowProc),
        t \in {<<>>, <<l_print_a, l_end>>}}

\* if cond:
IfLine(cond) == <<"i", "f", " ">> \o cond \o <<":">>

\* not cond
Negated(cond) == kw_not \o cond

Comparisons == {<<"i", " ">> \o CmpOps[k] \o <<" ", "1">> : k \in 1..Len(CmpOps)}

BareConds == {<<"i">>, <<"0">>, <<"1">>, <<"\"", "\"">>, <<"i", " ", "-", " ", "1">>, <<"y">>}

\* the conditions negated: comparisons, bare expressions, negations of them
Conds == Comparisons \cup BareConds \cup {Negated(c) : c \in BareConds}

\* a block under a condition, and a block under its negation
CondPrograms ==
    {<<entry_header, DefI(n), IfLine(c), l_print_a, l_end, IfLine(Negated(c)), l_print_b, l_end,
       l_end>> : n \in 0..MaxCount, c \in Conds}

NameUnits ==
    {<<l_def_a>>, <<l_const_a>>, <<l_create_a>>, <<l_append_1>>, <<l_append_2>>, <<l_remove_1>>,
     <<l_filter_gt>>, <<l_def_proc_a, l_print_hi, l_end>>, <<l_call_a>>}

RECURSIVE Flat(_)
Flat(units) == IF units = <<>> THEN <<>> ELSE Head(units) \o Flat(Tail(units))

\* a variable, a list and a procedure of one name a, in every order
NamePrograms ==
    {<<entry_header, l_def_a, l_create_a, l_def_proc_a, l_print_hi, l_end>> \o Flat(u) \o <<l_end>> :
        u \in SeqsUpTo(NameUnits, MaxNameOps)}
    \cup {<<entry_header>> \o Flat(u) \o <<l_end>> : u \in SeqsUpTo(NameUnits, MaxNameOps)}

FlowSources ==
    IfPrograms \cup LoopPrograms \cup NestedPrograms \cup FlowProcPrograms \cup DefPrograms
        \cup CondPrograms \cup NamePrograms

InitFlow ==
    /\ interp \in {Interpreter(src) : src \in FlowSources}
    /\ app = NoApp

SpecFlow == InitFlow /\ [][Next]_vars

\* ------------------------------------------------------------------------
\* while: the passes over the body
\* ------------------------------------------------------------------------

\* the counters of the lines of the body of the block whose header is at
\* counter start that lie outside of the blocks nested in it
DirectLines(lines, start) ==
    {j \in (start + 1)..(MatchingEnd(lines, start) - 1) : Nesting(lines, start + 1, j - 1) = 0}

\* the members of a set of numbers, least first
Sorted(S) == [m \in 1..Cardinality(S) |-> CHOOSE x \in S : Cardinality({y \in S : y < x}) = m - 1]

\* a line of the program dispatched at its own counter and executed
Executed(e) == e.via /= "call" /\ ~e.collecting

\* the place in the log of the last dispatch of the header at counter start
HeaderPlace(s, start) == LastOf({k \in 1..Len(s.log) : s.log[k].pc = start /\ Executed(s.log[k])})

\* the dispatches, after place k0, of the lines at the counters in D
Since(s, k0, D) ==
    SelectSeq(SubSeq(s.log, k0 + 1, Len(s.log)), LAMBDA e : Executed(e) /\ e.pc \in D)

\* P is n passes over the counters of D, in order
Passes(P, D, n) ==
    /\ Len(P) = n * Len(D)
    /\ \A m \in 1..Len(P) : P[m].pc = D[((m - 1) % Len(D)) + 1]

\* the body of the block at counter start has a break; or a skip; line
HasBreak(lines, start) ==
    \E j \in (start + 1)..(MatchingEnd(lines, start) - 1) : lines[j + 1] \in {kw_break, kw_skip}

\* the body of the block at counter start has a block of its own
HasBlock(lines, start) ==
    \E j \in (start + 1)..(MatchingEnd(lines, start) - 1) : EndsWith(lines[j + 1], <<":">>)

\* the loop whose header is at counter ev.start, closed by an End;, has ended
LoopEnded(s) == s.ev.op = "while_exit" /\ MatchingEnd(s.lines, s.ev.start) /= 0

\* the lines of the body of that loop have each been dispatched once for
\* each check that was true, a pass after a pass, each pass in order
BodyPasses(s) ==
    Passes(Since(s, HeaderPlace(s, s.ev.start), DirectLines(s.lines, s.ev.start)),
           Sorted(DirectLines(s.lines, s.ev.start)), s.ev.iters)

\* C11: when a while block ends, its condition having been true n times, the
\* lines of its body (those outside of nested blocks; bodies with break; or
\* skip; set aside) have each been executed n times, pass after pass, each
\* pass in order from the line after the header.
C11_BodyOncePerTrueCheck ==
    (LoopEnded(interp) /\ ~HasBreak(interp.lines, interp.ev.start)) => BodyPasses(interp)

\* C11, the part the code keeps: the same for the loops whose body is made
\* of plain statements, without a block, a break; or a skip;.
C11_PlainBodies ==
    (/\ LoopEnded(interp)
     /\ ~HasBreak(interp.lines, interp.ev.start)
     /\ ~HasBlock(interp.lines, interp.ev.start)) => BodyPasses(interp)

\* a loop with a loop in its body has ended after one pass or more
C11_NestedLoopEnded ==
    /\ LoopEnded(interp) /\ interp.ev.iters >= 1
    /\ StartsWith(interp.lines[interp.ev.start + 2], kw_while)

\* ------------------------------------------------------------------------
\* if and else
\* ------------------------------------------------------------------------

\* the line dispatched last is an if line of the program, executed
IfDispatched(s) ==
    /\ s.log /= <<>>
    /\ s.ev.op = "exec" /\ StartsWith(s.ev.line, kw_if)
    /\ Executed(LastLog(s))

\* what its condition evaluates to in the stores it was dispatched in
IfResult(s) == eval_cond(s.pre.vars, Strip(Slice(s.ev.line, 3)), FALSE, IntV(0))

\* an if block that an End; closes has been dispatched, its condition false
IfFalse(s) ==
    /\ IfDispatched(s)
    /\ MatchingEnd(s.lines, s.ev.start) /= 0
    /\ IfResult(s).ok /\ ~IfResult(s).b

\* the stores and the output are as the step found them
SameStores(s) ==
    /\ s.vars = s.pre.vars /\ s.consts = s.pre.consts /\ s.lists = s.pre.lists
    /\ s.procedures = s.pre.procedures /\ s.out = s.pre.out

\* the counter is left on the End; that closes the block dispatched last,
\* nothing changed, so that the line after that End; is the next to run
LeftOnEnd(s) ==
    /\ s.status = "running"
    /\ s.pc = MatchingEnd(s.lines, s.ev.start)
    /\ SameStores(s)

\* C12: an if block whose condition is false executes no line of its body
\* and leaves the counter on the End; that matches its header, whatever the
\* body is (empty, or beginning with a block header).
C12_IfFalseSkipsBody == IfFalse(interp) => LeftOnEnd(interp)

\* C12, the part the code keeps: the same when the first line of the body is
\* a plain statement.
C12_PlainFirstLine ==
    (/\ IfFalse(interp)
     /\ interp.lines[interp.ev.start + 2] /= kw_end
     /\ ~EndsWith(interp.lines[interp.ev.start + 2], <<":">>)) => LeftOnEnd(interp)

\* an if block with an empty body has been dispatched, its condition false
C12_EmptyBodySkipped == IfFalse(interp) /\ interp.lines[interp.ev.start + 2] = kw_end

\* the loop of an if block of the program, entered at counter ev.start and
\* closed by an End;, has ended
IfEnded(s) ==
    /\ s.ev.op = "if_end"
    /\ StartsWith(s.lines[s.ev.start + 1], kw_if)
    /\ MatchingEnd(s.lines, s.ev.start) /= 0

\* the lines of its body have each been dispatched once, in order, and the
\* counter is on the End; that closes the block
BodyOnce(s) ==
    /\ s.status = "running"
    /\ s.pc = MatchingEnd(s.lines, s.ev.start)
    /\ Passes(Since(s, HeaderPlace(s, s.ev.start), DirectLines(s.lines, s.ev.start)),
              Sorted(DirectLines(s.lines, s.ev.start)), 1)

\* C13: when the body of an if block whose condition was true has been gone
\* through, each line from the one after the header up to the matching End;
\* has been executed once, in order (a nested block as one statement), and
\* the counter is on that End;, nested if and while blocks in the body
\* included.
C13_IfTrueRunsBodyOnce == IfEnded(interp) => BodyOnce(interp)

\* C13, the part the code keeps: the same for the bodies made of plain
\* statements.
C13_PlainBodies ==
    (/\ IfEnded(interp)
     /\ ~HasBreak(interp.lines, interp.ev.start)
     /\ ~HasBlock(interp.lines, interp.ev.start)) => BodyOnce(interp)

\* an if block whose body begins with a loop has been gone through
C13_LoopInsideEnded ==
    /\ IfEnded(interp)
    /\ StartsWith(interp.lines[interp.ev.start + 2], kw_while)
    /\ \E k \in 1..Len(interp.log) : interp.log[k].line = l_dec_i

\* an else block of the program that an End; closes has been dispatched
ElseDispatched(s) ==
    /\ s.log /= <<>>
    /\ s.ev.op = "exec" /\ StartsWith(s.ev.line, kw_else)
    /\ Executed(LastLog(s))
    /\ MatchingEnd(s.lines, s.ev.start) /= 0

\* the counter p is on a line of the body of the else block whose header is
\* at counter e
InElseBody(lines, e, p) == e < p /\ p < MatchingEnd(lines, e)

\* the counters at which an else header of the program has been dispatched
ElseHeaders(s) ==
    {s.log[k].pc : k \in {j \in 1..Len(s.log) :
        Executed(s.log[j]) /\ StartsWith(s.log[j].line, kw_else)}}

\* C14: an else block is never executed.  When its header is dispatched,
\* after an if block whose condition was true or one whose condition was
\* false, the stores and the output stay as they were and the counter is
\* left on the End; that closes the else block; and no line of the body of
\* an else block whose header was dispatched is ever executed.
C14_ElseNeverRuns ==
    /\ ElseDispatched(interp) => LeftOnEnd(interp)
    /\ \A k \in 1..Len(interp.log) : \A e \in ElseHeaders(interp) :
        Executed(interp.log[k]) => ~InElseBody(interp.lines, e, interp.log[k].pc)

\* the header of an else block with a block in its body has been dispatched
\* after an if block that printed
C14_ElseAfterTrueIf ==
    /\ ElseDispatched(interp)
    /\ interp.lines[interp.ev.start] = kw_end
    /\ interp.lines[interp.ev.start + 2] = l_if_true
    /\ interp.out = <<<<"b">>>>

\* ------------------------------------------------------------------------
\* break; and skip;
\* ------------------------------------------------------------------------

\* the counter of the End; that closes the block the line at counter p is in,
\* 0 if nothing closes it
EnclosingEnd(lines, p) ==
    FirstOf({j \in (p + 1)..(Len(lines) - 1) : Nesting(lines, p + 1, j) = 0 - 1})

\* the counter of the header of the nearest while block around counter p, 0
\* if there is none
EnclosingLoop(lines, p) ==
    LastOf({w \in 1..(p - 1) : StartsWith(lines[w + 1], kw_while) /\ MatchingEnd(lines, w) > p})

\* a break; or a skip; of the program, in a block that an End; closes, has
\* been dispatched
BreakDispatched(s) ==
    /\ s.log /= <<>>
    /\ s.ev.op = "exec" /\ s.ev.line \in {kw_break, kw_skip}
    /\ Executed(LastLog(s))
    /\ EnclosingEnd(s.lines, s.ev.start) /= 0

\* the rest of the block it is in is passed over
SkipsEnclosingBlock(s) ==
    /\ s.status = "running"
    /\ s.pc = EnclosingEnd(s.lines, s.ev.start)
    /\ SameStores(s)

\* the loop of a while block dispatches a line right after it dispatched a
\* break; or a skip; that lies in a while block
AfterBreak(s) ==
    /\ Len(s.log) >= 2
    /\ s.ev.op = "exec"
    /\ Executed(LastLog(s)) /\ LastLog(s).via = "while"
    /\ Executed(s.log[Len(s.log) - 1]) /\ s.log[Len(s.log) - 1].via = "while"
    /\ s.log[Len(s.log) - 1].line \in {kw_break, kw_skip}
    /\ EnclosingLoop(s.lines, s.log[Len(s.log) - 1].pc) /= 0

\* the line at counter p is a line of the body of the loop at counter w
InLoop(lines, w, p) == w < p /\ p < MatchingEnd(lines, w)

\* C15, the part the code keeps: break; and skip; do the same thing in
\* every state, and each passes over the rest of the block it is in,
\* changing nothing but the counter.
C15_SkipsEnclosingBlock ==
    /\ skip_loop(interp) = break_loop(interp)
    /\ BreakDispatched(interp) => SkipsEnclosingBlock(interp)

\* C15: break; and skip; do the same thing in every state; each passes over
\* the rest of the block it is in; and the effect stays within the nearest
\* while loop around it: the line the loop executes next is a line of that
\* loop, none outside of it is executed as part of the loop.
C15_BreakBounded ==
    /\ skip_loop(interp) = break_loop(interp)
    /\ BreakDispatched(interp) => SkipsEnclosingBlock(interp)
    /\ AfterBreak(interp) =>
        InLoop(interp.lines, EnclosingLoop(interp.lines, interp.log[Len(interp.log) - 1].pc),
               LastLog(interp).pc)

\* a break; met in the body of a loop has been dispatched
C15_BreakInLoop ==
    /\ BreakDispatched(interp) /\ interp.ev.line = kw_break
    /\ LastLog(interp).via = "while"

\* ------------------------------------------------------------------------
\* Procedure calls and the counter
\* ------------------------------------------------------------------------

\* the loop over the stored lines of a call is about to hand out its next
\* line, or to return
AtCallLoop(s) == s.status = "running" /\ Top(s).k = "call"

\* a control-flow line
IsControl(line) ==
    \/ StartsWith(line, kw_if) \/ StartsWith(line, kw_else) \/ StartsWith(line, kw_while)
    \/ line \in {kw_break, kw_skip}

\* C16: a procedure call does not move the counter of its caller: between
\* the stored lines of the call, and when the call returns, the counter is
\* where it was when the call was made, whatever the stored lines are (if,
\* else:, while, break; and skip; lines included).
C16_CallKeepsCounter == AtCallLoop(interp) => interp.pc = Top(interp).start

\* C16, the part the code keeps: the same for the calls whose stored lines
\* hold no control-flow line.
C16_PlainStoredLines ==
    (/\ AtCallLoop(interp)
     /\ \A i \in 1..Len(Top(interp).body) : ~IsControl(Top(interp).body[i])) =>
        interp.pc = Top(interp).start

\* a call whose stored lines begin with an if line has handed out all of
\* its lines
C16_IfInBodyReturning ==
    /\ AtCallLoop(interp)
    /\ Top(interp).i > Len(Top(interp).body)
    /\ Top(interp).body /= <<>> /\ Top(interp).body[1] = l_if_true

\* ------------------------------------------------------------------------
\* Procedure definitions
\* ------------------------------------------------------------------------

\* a line has been dispatched in collecting mode
DispatchedCollecting(s) == s.ev.op = "exec" /\ s.pre.defining_proc

\* the header that opened the definition in progress
LastHeader(s) ==
    s.log[LastOf({k \in 1..Len(s.log) : StartsWith(s.log[k].line, kw_def_procedure)})].line

\* the line dispatched is appended to the buffer as it is, and not executed
Collected(s) ==
    /\ s.status = "running"
    /\ s.defining_proc
    /\ s.proc_buffer = Append(s.pre.proc_buffer, s.ev.line)
    /\ SameStores(s)

\* the buffered lines are stored under the name of the header, collecting
\* mode ends and the run goes on
Stored(s) ==
    /\ s.status = "running"
    /\ ~s.defining_proc
    /\ s.procedures = Put(s.pre.procedures, proc_name(LastHeader(s)), s.pre.proc_buffer)
    /\ s.vars = s.pre.vars /\ s.lists = s.pre.lists /\ s.out = s.pre.out

\* a loop of an if or a while block has stopped on an End; in collecting mode
TerminatorMet(s) == s.ev.op \in {"if_end", "body_end"} /\ s.pre.defining_proc /\ s.status = "running"

\* C17, the part the code keeps: in collecting mode a line handed to the
\* dispatcher that is not a definition header is appended as it is to the
\* buffer and not executed, and an End; handed to it stores the buffered
\* lines under the name of the procedure and ends collecting mode, the run
\* going on.
C17_CollectsAndStores ==
    /\ (DispatchedCollecting(interp) /\ interp.ev.line /= kw_end
            /\ ~StartsWith(interp.ev.line, kw_def_procedure)) => Collected(interp)
    /\ (DispatchedCollecting(interp) /\ interp.ev.line = kw_end) => Stored(interp)

\* C17: from a definition header to its terminator every line met is
\* appended as it is to the buffer and none is executed; at the terminator
\* the registry maps the name to the buffered lines and collecting mode
\* ends, the run going on: so too when the terminator is met by the loop of
\* a block the definition is in.
C17_CollectingMode ==
    /\ (DispatchedCollecting(interp) /\ interp.ev.line /= kw_end
            /\ ~StartsWith(interp.ev.line, kw_def_procedure)) => Collected(interp)
    /\ (DispatchedCollecting(interp) /\ interp.ev.line = kw_end) => Stored(interp)
    /\ TerminatorMet(interp) => ~interp.defining_proc

\* the End; of a definition of two lines at the top of the program has been
\* dispatched
C17_TwoLinesStored ==
    /\ DispatchedCollecting(interp) /\ interp.ev.line = kw_end
    /\ LastLog(interp).via = "run"
    /\ Len(interp.pre.proc_buffer) = 2
    /\ interp.pre.proc_buffer[1] /= interp.pre.proc_buffer[2]

\* ------------------------------------------------------------------------
\* Negated conditions
\* ------------------------------------------------------------------------

\* eval_cond(cond) in the variables V
CondIn(V, cond) == eval_cond(V, cond, FALSE, IntV(0))

\* the line "if not c:" has been dispatched in stores in which eval_cond
\* accepts c
NotDispatched(s, c) ==
    /\ IfDispatched(s)
    /\ s.ev.line = IfLine(Negated(c))
    /\ CondIn(s.pre.vars, c).ok

\* eval_cond of "not c" was the negation of eval_cond of c
Negates(s, c) ==
    /\ s.status = "running"
    /\ IfResult(s) = OkB(~CondIn(s.pre.vars, c).b)

\* C18: for every condition c that eval_cond accepts, a comparison or a bare
\* expression, eval_cond of "not c" is the negation of eval_cond of c.
C18_NotNegates == \A c \in Conds : NotDispatched(interp, c) => Negates(interp, c)

\* C18, the part the code keeps: the same for the conditions that hold no
\* comparison operator.
C18_NotNegatesBare ==
    \A c \in Conds \ Comparisons : NotDispatched(interp, c) => Negates(interp, c)

\* the line "if not i == 1:" has been dispatched
C18_NotOfComparison ==
    NotDispatched(interp, <<"i", " ", "=", "=", " ", "1">>)

\* ------------------------------------------------------------------------
\* The three stores
\* ------------------------------------------------------------------------

\* a line has been dispatched and executed, in a run or in a call
Run(s) == s.ev.op = "exec" /\ ~s.pre.defining_proc

\* create list, append, remove or filter has been dispatched
ListStatement(s) ==
    /\ Run(s)
    /\ \/ StartsWith(s.ev.line, kw_create_list) \/ StartsWith(s.ev.line, kw_append)
       \/ StartsWith(s.ev.line, kw_remove) \/ StartsWith(s.ev.line, kw_filter)

\* def var or def const has been dispatched
VarStatement(s) ==
    /\ Run(s)
    /\ StartsWith(s.ev.line, kw_def) /\ ~StartsWith(s.ev.line, kw_def_procedure)

\* a line of a procedure definition has been dispatched: its header, a line
\* of its body, or its terminator
DefinitionLine(s) ==
    s.ev.op = "exec" /\ (s.pre.defining_proc \/ StartsWith(s.ev.line, kw_def_procedure))

\* C19: the variable store, the list store and the procedure registry are
\* apart.  create list, append, remove and filter leave the variables and
\* the procedures as they were; def var and def const leave the lists and
\* the procedures as they were; the lines of a procedure definition leave
\* the variables and the lists as they were: so too when the name is in use
\* in the other stores.
C19_SeparateStores ==
    /\ ListStatement(interp) =>
        /\ interp.vars = interp.pre.vars /\ interp.consts = interp.pre.consts
        /\ interp.procedures = interp.pre.procedures
    /\ VarStatement(interp) =>
        /\ interp.lists = interp.pre.lists
        /\ interp.procedures = interp.pre.procedures
    /\ DefinitionLine(interp) =>
        /\ interp.vars = interp.pre.vars /\ interp.consts = interp.pre.consts
        /\ interp.lists = interp.pre.lists

\* an append to the list a has been executed, a being a variable, a list
\* and a procedure
C19_OneNameThreeStores ==
    /\ ListStatement(interp) /\ StartsWith(interp.ev.line, kw_append)
    /\ <<"a">> \in DOMAIN interp.vars
    /\ <<"a">> \in DOMAIN interp.procedures
    /\ <<"a">> \in DOMAIN interp.lists
    /\ interp.lists[<<"a">>] /= interp.pre.lists[<<"a">>]

\* ------------------------------------------------------------------------
\* Termination
\* ------------------------------------------------------------------------

\* no line of the program is a while header
NoWhile(lines) == \A k \in 1..Len(lines) : ~StartsWith(lines[k], kw_while)

\* the places of the definition headers in the text of a program
DefHeaders(lines) ==
    {h \in 1..Len(lines) : StartsWith(lines[h], kw_def_procedure) /\ Len(Words(lines[h])) >= 3}

\* the place of the End; that closes the definition whose header is at h
DefEnd(lines, h) == FirstOf({j \in (h + 1)..Len(lines) : lines[j] = kw_end})

\* the names called by the lines of the definition whose header is at h
CallsOf(lines, h) ==
    {call_name(lines[j]) : j \in {i \in (h + 1)..(DefEnd(lines, h) - 1) :
        StartsWith(lines[i], kw_call) /\ Len(Words(lines[i])) >= 2}}

\* the names called by the procedures named in N
Callees(lines, N) ==
    UNION {CallsOf(lines, h) : h \in {g \in DefHeaders(lines) : proc_name(lines[g]) \in N}}

\* the names called by the procedures named in N, directly or through k
\* other procedures at most
RECURSIVE CalledFrom(_, _, _)
CalledFrom(lines, N, k) ==
    IF k = 0 THEN Callees(lines, N)
    ELSE Callees(lines, N) \cup CalledFrom(lines, Callees(lines, N), k - 1)

\* no procedure of the program calls itself, directly or through others
NoRecursion(lines) ==
    \A h \in DefHeaders(lines) :
        proc_name(lines[h]) \notin
            CalledFrom(lines, {proc_name(lines[h])}, Cardinality(DefHeaders(lines)))

\* a procedure that calls itself, and two that call each other
RecursivePrograms ==
    {<<entry_header, l_def_p, l_print_hi, l_call_p, l_end, l_call_p, l_end>>,
     <<entry_header, l_def_p, l_call_q, l_end, l_def_q, l_call_p, l_end, l_call_p, l_end>>}

\* the programs without a loop, and a few with one
HaltSources ==
    {src \in FlowSources \cup ProcPrograms : NoWhile(src)}
        \cup NestedPrograms \cup RecursivePrograms

InitHalt ==
    /\ interp \in {Interpreter(src) : src \in HaltSources}
    /\ app = NoApp

\* run() has a step to take: it has not begun, or it has neither returned
\* nor raised (the guards of the disjuncts of Next)
CanStep(s) ==
    \/ s.status = "new"
    \/ /\ s.status = "running"
       /\ s.steps < MaxSteps
       /\ \/ Top(s).k \in {"run", "if", "call"}
          \/ Top(s).k = "while" /\ Top(s).phase \in {"cond", "body"}

\* weak fairness of Next, WF_vars(Next), with ENABLED <<Next>>_vars written
\* out as CanStep: the one thread of run() is never suspended for ever
FairNext == []<>(~CanStep(interp)) \/ []<><<Next>>_vars

\* run() goes on as long as it has not returned or raised
SpecHalt == InitHalt /\ [][Next]_vars /\ FairNext

\* the run has returned or raised
Halted(s) == s.status \in {"done", "error"}

\* a program without a while line and without a procedure that calls itself
Loopless(s) == NoWhile(s.lines) /\ NoRecursion(s.lines)

\* C20: the run of a program that has no while line and no procedure that
\* calls itself, directly or through others, comes to an end, normally or
\* with an error, and no step of it takes the counter back.
C20_Terminates ==
    /\ [][Loopless(interp) => interp'.pc >= interp.pc]_vars
    /\ Loopless(interp) ~> Halted(interp)

\* a program of that kind with a procedure in it has run an if block, made a
\* call, and come to its end
C20_LooplessRunEnded ==
    /\ Loopless(interp) /\ interp.status = "done"
    /\ DefHeaders(interp.lines) /= {}
    /\ interp.ncalls >= 1
    /\ \E k \in 1..Len(interp.log) : interp.log[k].via = "if"

====
